---------------------------- MODULE Spec2Model ----------------------------
(***************************************************************************)
(* A model of the travel-plan agent (dannyfffff/travel-plan-agent).        *)
(*                                                                         *)
(* Six specifications share the variables of this module:                  *)
(*   SpecRouting  get_amap_driving_time, one loop iteration per step       *)
(*                (src/api_tools.py);                                      *)
(*   SpecPlan     pre_meeting_plan: filter, eligibility, scoring,          *)
(*                Sequencer and the truncation loop (src/nodes.py,         *)
(*                src/planning_tools.py);                                  *)
(*   SpecScenario pre_meeting_plan on the data of the worked example;      *)
(*   SpecOracle   the same with a routing service that answers each pair   *)
(*                of places the same way on every query;                   *)
(*   SpecFilter   filter_companies_by_area_by_time on any center           *)
(*                (src/planning_tools.py);                                 *)
(*   Spec         the LangGraph pipeline of src/graph.py, one node per     *)
(*                step.                                                    *)
(* Each specification leaves the variables of the others at their initial  *)
(* values.                                                                 *)
(*                                                                         *)
(* Units: driving times and instants are integers counting tenths of a     *)
(* minute (get_amap_driving_time rounds to one decimal); backoff waits are *)
(* whole seconds.  Optional values are sequences: None is <<>> and a       *)
(* present value v is <<v>>.                                               *)
(***************************************************************************)
EXTENDS Integers, Sequences, FiniteSets, TLC

VARIABLES
    \* ---- get_amap_driving_time (src/api_tools.py) ----
    AMAP_API_KEY,   \* TRUE iff the key is configured (config.py:8)
    rc_pc,          \* "idle" | "loop" | "returned" | "raised"
    origin,         \* Location argument: [lat, lon]
    destination,    \* Location argument: [lat, lon]
    attempt,        \* loop variable of `for attempt in range(MAX_RETRIES)`
    wait_time,      \* local wait_time, seconds
    requests,       \* requests.get calls issued by the current call
    sleeps,         \* time.sleep arguments of the current call, in order
    responses,      \* oracle outcomes of the current call, classified, in order
    result,         \* return value of the last call: None or <<tenths of a minute>>
    calls,          \* calls started so far
    \* ---- pre_meeting_plan (src/nodes.py) ----
    pm_pc,                      \* position inside pre_meeting_plan
    meeting_resolved,           \* meeting_loc has coordinates
    arrival_at_hub_dt,          \* selected_transport['end_time']
    meeting_start_dt,           \* user_data['meeting_start_dt']
    arrival_commute_min,        \* selected_transport['details']['arrival_commute_min']
    city_companies,             \* COMPANIES_DB[city]: sequence of directory entries
    first_filtered_companies,   \* result of filter_companies_by_area_by_time
    idx,                        \* loop index of the current for-loop
    available_companies,        \* eligible companies with their recorded legs
    final_visit_plan_data,      \* tentative list, truncated by the loop
    tentative_len,              \* len(final_visit_plan_data) when the loop is entered
    current_time,               \* walk clock
    current_route_items,        \* segments of the current walk
    pre_meeting_route_final,    \* accepted route
    final_arrival_time,         \* None or <<instant>>
    pm_error_message,           \* error_message returned by pre_meeting_plan
    walks,                      \* forward walks started
    walk_calls,                 \* get_amap_driving_time calls made by the loop
    llm_called,                 \* get_company_scores_by_llm was invoked
    merged_len,                 \* len(merged_companies_for_planning) given to the Sequencer
    center_location,            \* center_location given to filter_companies_by_area_by_time
    driving_time_oracle,        \* the routing service's answer per pair of places, fixed for a run
    \* ---- pipeline (src/graph.py) ----
    node,                       \* node to run next, or "END"
    executed,                   \* nodes run so far, in order
    error_message,              \* state['error_message']
    transport_options,          \* flight_options + train_options
    llm_answer,                 \* transit-choice oracle's raw output
    selected_option_raw,        \* state['selected_option_raw']: None or <<offer>>
    selected_transport,         \* state['selected_transport']: None or <<item>>
    post_meeting_route,         \* state['post_meeting_route']
    itinerary_items             \* state['final_itinerary'], the sorted itinerary_items

rcVars == <<AMAP_API_KEY, rc_pc, origin, destination, attempt, wait_time,
            requests, sleeps, responses, result, calls>>

pmVars == <<pm_pc, meeting_resolved, arrival_at_hub_dt, meeting_start_dt,
            arrival_commute_min, city_companies, first_filtered_companies, idx,
            available_companies,
            final_visit_plan_data, tentative_len, current_time,
            current_route_items, pre_meeting_route_final, final_arrival_time,
            pm_error_message, walks, walk_calls, llm_called, merged_len,
            center_location, driving_time_oracle>>

plVars == <<node, executed, error_message, transport_options, llm_answer,
            selected_option_raw, selected_transport>>

itVars == <<post_meeting_route, itinerary_items>>

vars == <<rcVars, pmVars, plVars, itVars>>

None == <<>>

Some(v) == <<v>>

-----------------------------------------------------------------------------
(***************************************************************************)
(* RoutingClient: get_amap_driving_time                                    *)
(***************************************************************************)

\* variant: one attempt more
MAX_RETRIESMutFour == 3 + 1

MAX_RETRIES == 3

INITIAL_WAIT_TIME == 1

\* `return 35.0`, in tenths of a minute
FALLBACK_TENTHS == 350

\* calls of get_amap_driving_time explored in one behaviour
MaxCalls == 2

\* A coordinate field of a Location (state.py: Optional[float]; the key is
\* always present): None, the falsy number 0.0, or a non-zero number.
Coord == {"None", "0.0", "set"}

Location == [lat : Coord, lon : Coord]

\* Python truthiness of a coordinate: `not x` holds for None and for 0.0
Truthy(c) == c = "set"

\* route durations the oracle reports, in seconds (none a tie of the rounding)
DurationSeconds == {600, 1190}

\* round(duration_seconds / 60.0, 1) in tenths of a minute, for durations
\* that are not half-way between two tenths (seconds % 6 # 3)
RoundTenths(seconds) == (seconds + 3) \div 6

\* What one requests.get attempt can produce: a transport failure
\* (requests.exceptions.RequestException from get or raise_for_status), or
\* the decoded JSON body.  count "x" is a non-numeric count, info "nonstr" a
\* non-string info field, route None a body without data['route'].
OracleResponses ==
    {[net |-> TRUE, status |-> "0", count |-> "0", info |-> "OTHER", route |-> None]}
    \cup
    [net : {FALSE}, status : {"0", "1"}, count : {"0", "1", "x"},
     info : {"LIMIT", "OTHER", "nonstr"},
     route : {None} \cup {Some(s) : s \in DurationSeconds}]

\* 'LIMIT' in error_reason.upper() or 'QUOTA' in error_reason.upper()
IsLimitInfo(info) == info = "LIMIT"

\* The outcome of the try body for one response, lines 92-125:
\*   "RequestException"  raised by requests.get / raise_for_status
\*   "Exception"         any other exception raised inside the try
\*   "success"           status "1", count > 0, route present
\*   "limit"             is_limit_error
\*   "error"             any other API answer
Classify(r) ==
    IF r.net THEN "RequestException"
    ELSE IF r.status = "1" /\ r.count = "x" THEN "Exception"        \* int() ValueError
    ELSE IF r.status = "1" /\ r.count = "1"
         THEN IF r.route = None THEN "Exception"                    \* KeyError
              ELSE "success"
    ELSE IF r.status = "0" /\ r.info = "nonstr" THEN "Exception"     \* .upper()
    ELSE IF r.status = "0" /\ IsLimitInfo(r.info) THEN "limit"
    ELSE "error"

\* `if not origin.get('lat') or not destination.get('lat')`
CoordinatesMissing(o, d) == ~Truthy(o.lat) \/ ~Truthy(d.lat)

\* `if attempt < MAX_RETRIES - 1` (lines 112 and 129)
MayRetry(a) == a < MAX_RETRIES - 1

\* variant: the wait is not doubled
NextWaitMutConstant(w) == w

\* `wait_time *= 2`
NextWait(w) == w * 2

\* variant: no `except Exception` handler, the exception propagates
OtherExceptionPcMutPropagate == "raised"

\* the handler of `except Exception` (lines 138-141): return None
OtherExceptionPc == "returned"

\* variant: a RequestException ends the call
RetryOnNetworkMutNoRetry(a) == FALSE

\* retry the request after a RequestException? (lines 127-136)
RetryOnNetwork(a) == MayRetry(a)

\* variant: every API error is retried like a rate-limit answer
RetryOnErrorMutRetry(a) == a < MAX_RETRIES - 1

\* retry after an API error that is not rate-limit-class? (lines 122-125)
RetryOnError(a) == FALSE

InitRC ==
    /\ AMAP_API_KEY \in BOOLEAN
    /\ rc_pc = "idle"
    /\ origin = [lat |-> "None", lon |-> "None"]
    /\ destination = [lat |-> "None", lon |-> "None"]
    /\ attempt = 0
    /\ wait_time = INITIAL_WAIT_TIME
    /\ requests = 0
    /\ sleeps = <<>>
    /\ responses = <<>>
    /\ result = None
    /\ calls = 0

\* variant: the wait of the previous call is carried into the next one
RC_CallMutKeepWait(o, d) ==
    /\ rc_pc \in {"idle", "returned"}
    /\ calls < MaxCalls
    /\ calls' = calls + 1
    /\ origin' = o
    /\ destination' = d
    /\ attempt' = 0
    /\ requests' = 0
    /\ sleeps' = <<>>
    /\ responses' = <<>>
    /\ wait_time' = wait_time
    /\ IF ~AMAP_API_KEY
       THEN rc_pc' = "returned" /\ result' = None
       ELSE IF CoordinatesMissing(o, d)
            THEN rc_pc' = "returned" /\ result' = Some(FALLBACK_TENTHS)
            ELSE rc_pc' = "loop" /\ result' = None
    /\ UNCHANGED <<AMAP_API_KEY, pmVars, plVars, itVars>>

\* Entry of get_amap_driving_time(o, d), lines 64-86.
RC_Call(o, d) ==
    /\ rc_pc \in {"idle", "returned"}
    /\ calls < MaxCalls
    /\ calls' = calls + 1
    /\ origin' = o
    /\ destination' = d
    /\ attempt' = 0
    /\ requests' = 0
    /\ sleeps' = <<>>
    /\ responses' = <<>>
    /\ wait_time' = INITIAL_WAIT_TIME
    /\ IF ~AMAP_API_KEY
       THEN rc_pc' = "returned" /\ result' = None
       ELSE IF CoordinatesMissing(o, d)
            THEN rc_pc' = "returned" /\ result' = Some(FALLBACK_TENTHS)
            ELSE rc_pc' = "loop" /\ result' = None
    /\ UNCHANGED <<AMAP_API_KEY, pmVars, plVars, itVars>>

\* One iteration of the retry loop with oracle response r, lines 89-141.
RC_Attempt(r) ==
    /\ rc_pc = "loop"
    /\ attempt < MAX_RETRIES
    /\ requests' = requests + 1
    /\ responses' = Append(responses, Classify(r))
    /\ LET k == Classify(r)
           retry == \/ k = "limit" /\ MayRetry(attempt)
                    \/ k = "RequestException" /\ RetryOnNetwork(attempt)
                    \/ k = "error" /\ RetryOnError(attempt)
       IN IF k = "success"
          THEN /\ rc_pc' = "returned"
               /\ result' = Some(RoundTenths(r.route[1]))
               /\ UNCHANGED <<attempt, wait_time, sleeps>>
          ELSE IF k = "Exception"
          THEN /\ rc_pc' = OtherExceptionPc
               /\ result' = None
               /\ UNCHANGED <<attempt, wait_time, sleeps>>
          ELSE IF retry
          THEN \* sleep, double the wait, `continue`; when range(MAX_RETRIES)
               \* is exhausted the loop ends and line 143 returns None
               /\ sleeps' = Append(sleeps, wait_time)
               /\ wait_time' = NextWait(wait_time)
               /\ attempt' = attempt + 1
               /\ rc_pc' = IF attempt + 1 < MAX_RETRIES THEN "loop" ELSE "returned"
               /\ UNCHANGED result
          ELSE /\ rc_pc' = "returned"
               /\ result' = None
               /\ UNCHANGED <<attempt, wait_time, sleeps>>
    /\ UNCHANGED <<AMAP_API_KEY, origin, destination, calls, pmVars, plVars, itVars>>

-----------------------------------------------------------------------------
(***************************************************************************)
(* pre_meeting_plan (src/nodes.py) with filter_companies_by_area_by_time   *)
(* and plan_multi_company_visit (src/planning_tools.py).                   *)
(*                                                                         *)
(* The node runs only after calculate_final_transport produced             *)
(* selected_transport (graph.py decide_after_traffic_calculation), whose   *)
(* location is a geocoded hub, so the hub always has coordinates and the   *)
(* `if not selected_transport` return of lines 326-329 is not taken.       *)
(***************************************************************************)

POST_ARRIVAL_BUFFER_MINUTES == 30

COMPANY_VISIT_DURATION_MINUTES == 45

\* directory entries of the hub's city
MaxCompanies == 2

\* entries of one value-oracle response
MaxScored == 2

\* minutes -> tenths of a minute
Tenths(m) == 10 * m

VISIT == Tenths(COMPANY_VISIT_DURATION_MINUTES)

\* names of the directory entries, in directory order
CompanyNames == <<"A", "B", "C", "D">>

\* a name the value oracle may invent
GhostName == "Ghost"

\* driving times the routing oracle reports for a resolved pair (tenths)
OracleTenths == {100, 900}

\* hub arrival instants (tenths of a minute since midnight)
HubArrivals == {6000}

\* meeting start instants: available minutes of -10 and 210
MeetingStarts == {6200, 8400}

\* arrival_commute_min of the selected transport (25.5 minutes)
ArrivalCommutes == {255}

\* latest_arrival_needed = meeting_start_dt - timedelta(minutes=POST_ARRIVAL_BUFFER_MINUTES)
latest_arrival_needed == meeting_start_dt - Tenths(POST_ARRIVAL_BUFFER_MINUTES)

\* available_minutes = (latest_arrival_needed - arrival_at_hub_dt).total_seconds() / 60
available_minutes == latest_arrival_needed - arrival_at_hub_dt

\* What get_amap_driving_time can return to a caller whose endpoints have the
\* given resolution: the fallback when a latitude is missing, otherwise None
\* (failure) or a rounded duration.
DrivingTimeResults(o_resolved, d_resolved) ==
    IF ~o_resolved \/ ~d_resolved
    THEN {Some(FALLBACK_TENTHS)}
    ELSE {None} \cup {Some(t) : t \in OracleTenths}

\* max_driving_minutes=int(max_driving_time_to_meeting * 2), in tenths
max_driving_minutes == Tenths((2 * arrival_commute_min) \div 10)

\* variant: every candidate with both legs known is admitted
EligibleMutNoCheck(T_hub_to_i, T_i_to_meeting) == TRUE

\* variant: the visit duration is subtracted instead of added
EligibleMutVisitSubtracted(T_hub_to_i, T_i_to_meeting) ==
    T_hub_to_i - VISIT + T_i_to_meeting <= available_minutes

\* eligibility test, line 365-367
Eligible(T_hub_to_i, T_i_to_meeting) ==
    T_hub_to_i + VISIT + T_i_to_meeting <= available_minutes

\* cities a Location may name; "" is a missing city
Cities == {"", "Shenzhen"}

\* arrival_hub_loc = selected_transport['location'] (line 332): the meeting
\* location with the coordinates amap_geocode returned for the hub
\* (lines 262-267)
arrival_hub_loc == [city |-> "Shenzhen", lat |-> "set", lon |-> "set"]

\* driving_time_oracle when a specification lets every query be answered
\* independently of the others
Unconstrained == <<>>

InitPM ==
    /\ pm_pc = "filter"
    /\ meeting_resolved \in BOOLEAN
    /\ arrival_at_hub_dt \in HubArrivals
    /\ meeting_start_dt \in MeetingStarts
    /\ arrival_commute_min \in ArrivalCommutes
    /\ city_companies \in {SubSeq(CompanyNames, 1, n) : n \in 0..MaxCompanies}
    /\ first_filtered_companies = <<>>
    /\ idx = 1
    /\ available_companies = <<>>
    /\ final_visit_plan_data = <<>>
    /\ tentative_len = 0
    /\ current_time = 0
    /\ current_route_items = <<>>
    /\ pre_meeting_route_final = <<>>
    /\ final_arrival_time = None
    /\ pm_error_message = None
    /\ walks = 0
    /\ walk_calls = 0
    /\ llm_called = FALSE
    /\ merged_len = 0
    /\ center_location = arrival_hub_loc
    /\ driving_time_oracle = Unconstrained

\* variant: a failed query ends the loop, the remaining entries are not
\* looked at
PM_FilterMutStopOnFailure(t) ==
    /\ pm_pc = "filter"
    /\ idx <= Len(city_companies)
    /\ first_filtered_companies' =
         IF t # None /\ t[1] <= max_driving_minutes
         THEN Append(first_filtered_companies,
                     [name |-> city_companies[idx], driving_time_min |-> t[1]])
         ELSE first_filtered_companies
    /\ idx' = IF t = None THEN Len(city_companies) + 1 ELSE idx + 1
    /\ UNCHANGED <<pm_pc, meeting_resolved, arrival_at_hub_dt, meeting_start_dt,
                   arrival_commute_min, city_companies, available_companies,
                   final_visit_plan_data, tentative_len,
                   current_time, current_route_items, pre_meeting_route_final,
                   final_arrival_time, pm_error_message, walks, walk_calls,
                   llm_called, merged_len, center_location, driving_time_oracle, rcVars, plVars, itVars>>

\* filter_companies_by_area_by_time, one iteration of `for company in
\* city_companies` with routing answer t for center -> company.
PM_Filter(t) ==
    /\ pm_pc = "filter"
    /\ idx <= Len(city_companies)
    /\ first_filtered_companies' =
         IF t # None /\ t[1] <= max_driving_minutes
         THEN Append(first_filtered_companies,
                     [name |-> city_companies[idx], driving_time_min |-> t[1]])
         ELSE first_filtered_companies
    /\ idx' = idx + 1
    /\ UNCHANGED <<pm_pc, meeting_resolved, arrival_at_hub_dt, meeting_start_dt,
                   arrival_commute_min, city_companies, available_companies,
                   final_visit_plan_data, tentative_len,
                   current_time, current_route_items, pre_meeting_route_final,
                   final_arrival_time, pm_error_message, walks, walk_calls,
                   llm_called, merged_len, center_location, driving_time_oracle, rcVars, plVars, itVars>>

\* the filter returns nearby_companies_by_time; pre_meeting_plan goes on to 3b
PM_FilterDone ==
    /\ pm_pc = "filter"
    /\ idx > Len(city_companies)
    /\ pm_pc' = "eligibility"
    /\ idx' = 1
    /\ UNCHANGED <<meeting_resolved, arrival_at_hub_dt, meeting_start_dt,
                   arrival_commute_min, city_companies, first_filtered_companies,
                   available_companies, final_visit_plan_data,
                   tentative_len, current_time, current_route_items,
                   pre_meeting_route_final, final_arrival_time,
                   pm_error_message, walks, walk_calls, llm_called, merged_len, center_location, driving_time_oracle, rcVars, plVars, itVars>>

\* 3b, one iteration of `for company in first_filtered_companies` with the
\* routing answers th (hub -> company) and tm (company -> meeting).
PM_Eligibility(th, tm) ==
    /\ pm_pc = "eligibility"
    /\ idx <= Len(first_filtered_companies)
    /\ available_companies' =
         IF th # None /\ tm # None /\ Eligible(th[1], tm[1])
         THEN Append(available_companies,
                     [name |-> first_filtered_companies[idx].name,
                      T_hub_to_i |-> th[1],
                      T_i_to_meeting |-> tm[1],
                      T_total_trip |-> th[1] + tm[1],
                      T_buffer |-> available_minutes - (th[1] + VISIT + tm[1])])
         ELSE available_companies
    /\ idx' = idx + 1
    /\ UNCHANGED <<pm_pc, meeting_resolved, arrival_at_hub_dt, meeting_start_dt,
                   arrival_commute_min, city_companies, first_filtered_companies,
                   final_visit_plan_data, tentative_len,
                   current_time, current_route_items, pre_meeting_route_final,
                   final_arrival_time, pm_error_message, walks, walk_calls,
                   llm_called, merged_len, center_location, driving_time_oracle, rcVars, plVars, itVars>>

\* variant: the value oracle is asked even when no company is eligible
PM_EligibilityDoneMutAlwaysScore ==
    /\ pm_pc = "eligibility"
    /\ idx > Len(first_filtered_companies)
    /\ pm_pc' = "score"
    /\ idx' = 1
    /\ UNCHANGED <<meeting_resolved, arrival_at_hub_dt, meeting_start_dt,
                   arrival_commute_min, city_companies, first_filtered_companies,
                   available_companies, final_visit_plan_data,
                   tentative_len, current_time, current_route_items,
                   pre_meeting_route_final, final_arrival_time,
                   pm_error_message, walks, walk_calls, llm_called, merged_len,
                   center_location, driving_time_oracle, rcVars, plVars, itVars>>

\* lines 376-378: no eligible company -> return the empty route, else go on
\* to the value oracle
PM_EligibilityDone ==
    /\ pm_pc = "eligibility"
    /\ idx > Len(first_filtered_companies)
    /\ pm_pc' = IF available_companies = <<>> THEN "done" ELSE "score"
    /\ idx' = 1
    /\ UNCHANGED <<meeting_resolved, arrival_at_hub_dt, meeting_start_dt,
                   arrival_commute_min, city_companies, first_filtered_companies,
                   available_companies, final_visit_plan_data,
                   tentative_len, current_time, current_route_items,
                   pre_meeting_route_final, final_arrival_time,
                   pm_error_message, walks, walk_calls, llm_called, merged_len, center_location, driving_time_oracle, rcVars, plVars, itVars>>

-----------------------------------------------------------------------------
(***************************************************************************)
(* Value oracle, merge (nodes.py 387-401) and plan_multi_company_visit     *)
(***************************************************************************)

\* A score field of a value-oracle entry: a number, a value float() rejects
\* (ValueError/TypeError), or no such key at all.
NumField(s) == [k |-> "num", v |-> s]

BadField == [k |-> "bad", v |-> 0]

AbsentField == [k |-> "absent", v |-> 0]

\* the (S_attract, S_feas) pairs of an entry
ScorePairs ==
    { <<NumField(9), NumField(8)>>, <<NumField(5), NumField(8)>>,
      <<BadField, NumField(8)>>, <<NumField(9), AbsentField>> }

\* entries the value oracle may return when asked about `names`
LLMItems(names) ==
    {[name |-> n, S_attract |-> p[1], S_feas |-> p[2]] :
        n \in names \cup {GhostName}, p \in ScorePairs}

SeqsUpTo(S, n) == UNION {[1..k -> S] : k \in 0..n}

\* get_company_scores_by_llm(available_companies, available_minutes): any list
\* of such entries, the empty list on failure
LLMOutputs(names) == SeqsUpTo(LLMItems(names), MaxScored)

NamesOf(companies) == {companies[i].name : i \in 1..Len(companies)}

\* original_companies_map = {c['name']: c for c in available_companies}:
\* the last company carrying the name
HasName(companies, name) == \E i \in 1..Len(companies) : companies[i].name = name

Lookup(companies, name) ==
    companies[CHOOSE i \in 1..Len(companies) :
                 /\ companies[i].name = name
                 /\ \A j \in (i+1)..Len(companies) : companies[j].name # name]

\* Lines 390-401 for one entry: what happens to a matched entry.
\*   "append"  both scores convert, the merged item is appended
\*   "skip"    float() raised ValueError/TypeError, caught at line 400
\*   "raise"   merged_item['S_attract'] / ['S_feas'] raised KeyError, which
\*             the except clause of line 400 does not catch
MergeOutcome(item) ==
    IF item.S_attract.k = "absent" THEN "raise"
    ELSE IF item.S_attract.k = "bad" THEN "skip"
    ELSE IF item.S_feas.k = "absent" THEN "raise"
    ELSE IF item.S_feas.k = "bad" THEN "skip"
    ELSE "append"

MergedItem(original, item) ==
    [name |-> original.name,
     T_hub_to_i |-> original.T_hub_to_i,
     T_i_to_meeting |-> original.T_i_to_meeting,
     T_total_trip |-> original.T_total_trip,
     T_buffer |-> original.T_buffer,
     S_attract |-> item.S_attract.v,
     S_feas |-> item.S_feas.v]

\* variant: an entry that matches no company is kept with default legs
RECURSIVE MergeFromMutDefault(_, _, _, _)
MergeFromMutDefault(out, avail, i, acc) ==
    IF i > Len(out) THEN [raised |-> FALSE, list |-> acc]
    ELSE LET o == MergeOutcome(out[i])
             original == IF HasName(avail, out[i].name)
                         THEN Lookup(avail, out[i].name)
                         ELSE [name |-> out[i].name, T_hub_to_i |-> 0,
                               T_i_to_meeting |-> 0, T_total_trip |-> 0,
                               T_buffer |-> 0]
         IN IF o = "raise" THEN [raised |-> TRUE, list |-> acc]
            ELSE IF o = "skip" THEN MergeFromMutDefault(out, avail, i + 1, acc)
            ELSE MergeFromMutDefault(out, avail, i + 1,
                                     Append(acc, MergedItem(original, out[i])))

\* the loop of lines 390-401 from entry i on; acc is
\* merged_companies_for_planning so far
RECURSIVE MergeFrom(_, _, _, _)
MergeFrom(out, avail, i, acc) ==
    IF i > Len(out) THEN [raised |-> FALSE, list |-> acc]
    ELSE IF ~HasName(avail, out[i].name) THEN MergeFrom(out, avail, i + 1, acc)
    ELSE LET o == MergeOutcome(out[i])
         IN IF o = "raise" THEN [raised |-> TRUE, list |-> acc]
            ELSE IF o = "skip" THEN MergeFrom(out, avail, i + 1, acc)
            ELSE MergeFrom(out, avail, i + 1,
                           Append(acc, MergedItem(Lookup(avail, out[i].name), out[i])))

Merge(out, avail) == MergeFrom(out, avail, 1, <<>>)

\* variant: alpha and beta exchanged
WEIGHTSMutSwapped == [alpha |-> 60, beta |-> 100, gamma |-> 2, delta |-> 1]

\* config.WEIGHTS scaled to integers: scores are kept times 200 and times
\* are tenths of a minute, so alpha 0.5 -> 100, beta 0.3 -> 60,
\* gamma 0.1/min -> 2 per tenth, delta 0.05/min -> 1 per tenth.
WEIGHTS == [alpha |-> 100, beta |-> 60, gamma |-> 2, delta |-> 1]

\* variant: the travel term charges the hub leg alone
calculate_final_scoreMutHubLegOnly(company, t_available) ==
    LET T_buffer == t_available - company.T_total_trip - VISIT
    IN (WEIGHTS.alpha * company.S_attract) + (WEIGHTS.beta * company.S_feas)
       - (WEIGHTS.gamma * company.T_hub_to_i) + (WEIGHTS.delta * T_buffer)

\* calculate_final_score: 200 * S_final
calculate_final_score(company, t_available) ==
    LET T_buffer == t_available - company.T_total_trip - VISIT
    IN (WEIGHTS.alpha * company.S_attract) + (WEIGHTS.beta * company.S_feas)
       - (WEIGHTS.gamma * company.T_total_trip) + (WEIGHTS.delta * T_buffer)

\* the record after calculate_final_score wrote S_final and T_buffer in it
Scored(company, t_available) ==
    [name |-> company.name,
     T_hub_to_i |-> company.T_hub_to_i,
     T_i_to_meeting |-> company.T_i_to_meeting,
     T_total_trip |-> company.T_total_trip,
     T_buffer |-> t_available - company.T_total_trip - VISIT,
     S_attract |-> company.S_attract,
     S_feas |-> company.S_feas,
     S_final |-> calculate_final_score(company, t_available)]

\* variant: ascending order
RECURSIVE InsertDescMutAscending(_, _)
InsertDescMutAscending(s, c) ==
    IF s = <<>> THEN <<c>>
    ELSE IF Head(s).S_final <= c.S_final
         THEN <<Head(s)>> \o InsertDescMutAscending(Tail(s), c)
    ELSE <<c>> \o s

\* sorted(scored_companies, key=lambda x: x['S_final'], reverse=True):
\* stable, equal keys keep their input order
RECURSIVE InsertDesc(_, _)
InsertDesc(s, c) ==
    IF s = <<>> THEN <<c>>
    ELSE IF Head(s).S_final >= c.S_final THEN <<Head(s)>> \o InsertDesc(Tail(s), c)
    ELSE <<c>> \o s

RECURSIVE SortDesc(_, _)
SortDesc(cs, acc) ==
    IF cs = <<>> THEN acc ELSE SortDesc(Tail(cs), InsertDesc(acc, Head(cs)))

SortedCompanies(scored_companies, t_available) ==
    SortDesc([i \in 1..Len(scored_companies) |->
                  Scored(scored_companies[i], t_available)], <<>>)

\* lines 78-84: the hop charged for a company.  Merged items carry no
\* 'T_prev_to_i', so both branches yield the company's hub leg.
T_prev_to_i(company, final_itinerary) == company.T_hub_to_i

\* variant: every company is accepted, whatever time remains
RECURSIVE GreedyMutNoCheck(_, _, _, _)
GreedyMutNoCheck(sorted, i, remaining_time, final_itinerary) ==
    IF i > Len(sorted) THEN final_itinerary
    ELSE GreedyMutNoCheck(sorted, i + 1, remaining_time,
                          Append(final_itinerary, sorted[i].name))

\* the greedy loop, lines 68-119, from position i of the sorted list
RECURSIVE Greedy(_, _, _, _)
Greedy(sorted, i, remaining_time, final_itinerary) ==
    IF i > Len(sorted) THEN final_itinerary
    ELSE LET time_needed == T_prev_to_i(sorted[i], final_itinerary) + VISIT
         IN IF remaining_time >= time_needed
            THEN Greedy(sorted, i + 1, remaining_time - time_needed,
                        Append(final_itinerary, sorted[i].name))
            ELSE final_itinerary

\* plan_multi_company_visit: the names of the accepted prefix, in score order
plan_multi_company_visit(scored_companies, t_available_total) ==
    Greedy(SortedCompanies(scored_companies, t_available_total), 1,
           t_available_total, <<>>)

\* Lines 380-417 with value-oracle response `out`.
PM_Score(out) ==
    /\ pm_pc = "score"
    /\ llm_called' = TRUE
    /\ IF out = <<>>
       THEN \* `if not scored_companies_llm_output`: return the empty route
            /\ pm_pc' = "done"
            /\ UNCHANGED <<final_visit_plan_data, tentative_len, merged_len>>
       ELSE \E m \in {Merge(out, available_companies)} :
            IF m.raised
            THEN /\ pm_pc' = "raised"
                 /\ UNCHANGED <<final_visit_plan_data, tentative_len, merged_len>>
            ELSE \E plan \in {plan_multi_company_visit(m.list, available_minutes)} :
                 /\ merged_len' = Len(m.list)
                 /\ final_visit_plan_data' = plan
                 /\ tentative_len' = Len(plan)
                 /\ pm_pc' = IF plan = <<>> THEN "done" ELSE "while"
    /\ UNCHANGED <<meeting_resolved, arrival_at_hub_dt, meeting_start_dt,
                   arrival_commute_min, city_companies, first_filtered_companies,
                   idx, available_companies, current_time, current_route_items,
                   pre_meeting_route_final, final_arrival_time,
                   pm_error_message, walks, walk_calls, center_location, driving_time_oracle, rcVars, plVars, itVars>>

-----------------------------------------------------------------------------
(***************************************************************************)
(* The truncation loop of pre_meeting_plan, lines 422-531                  *)
(***************************************************************************)

\* variant: the list is left as it is
PopMutKeep(list) == list

\* variant: the first element is removed
PopMutFirst(list) == Tail(list)

\* final_visit_plan_data.pop(): the list without its last element
Pop(list) == SubSeq(list, 1, Len(list) - 1)

\* variant: every completed walk is accepted
AcceptableMutAlways(arrival) == TRUE

\* `if final_arrival_time <= latest_arrival_needed` (line 489)
Acceptable(arrival) == arrival <= latest_arrival_needed

\* lines 445-466: the transit hop to a company and the visit there
HopItems(company_name, start, T) ==
    << [type |-> "transport", start_time |-> start, end_time |-> start + T,
        location |-> company_name, duration_min |-> T],
       [type |-> "company_visit", start_time |-> start + T,
        end_time |-> start + T + VISIT,
        location |-> company_name, duration_min |-> VISIT] >>

\* lines 492-499: the transit hop to the meeting venue
FinalItem(start, T) ==
    [type |-> "transport", start_time |-> start, end_time |-> start + T,
     location |-> "Meeting Venue", duration_min |-> T]

\* lines 520-522: the arrival reported when the loop left none
ReportedArrival(fat) ==
    IF fat = None THEN Some(arrival_at_hub_dt + arrival_commute_min) ELSE fat

\* variant: a walk keeps the segments of the walks before it
PM_WalkBeginMutKeepItems ==
    /\ pm_pc = "while"
    /\ final_visit_plan_data # <<>>
    /\ current_time' = arrival_at_hub_dt
    /\ current_route_items' = current_route_items
    /\ idx' = 1
    /\ walks' = walks + 1
    /\ pm_pc' = "hop"
    /\ UNCHANGED <<meeting_resolved, arrival_at_hub_dt, meeting_start_dt,
                   arrival_commute_min, city_companies, first_filtered_companies,
                   available_companies, final_visit_plan_data,
                   tentative_len, pre_meeting_route_final, final_arrival_time,
                   pm_error_message, walk_calls, llm_called, merged_len,
                   center_location, driving_time_oracle, rcVars, plVars, itVars>>

\* `while final_visit_plan_data:` holds; lines 424-427 start a walk at the hub
PM_WalkBegin ==
    /\ pm_pc = "while"
    /\ final_visit_plan_data # <<>>
    /\ current_time' = arrival_at_hub_dt
    /\ current_route_items' = <<>>
    /\ idx' = 1
    /\ walks' = walks + 1
    /\ pm_pc' = "hop"
    /\ UNCHANGED <<meeting_resolved, arrival_at_hub_dt, meeting_start_dt,
                   arrival_commute_min, city_companies, first_filtered_companies,
                   available_companies, final_visit_plan_data,
                   tentative_len, pre_meeting_route_final, final_arrival_time,
                   pm_error_message, walk_calls, llm_called, merged_len, center_location, driving_time_oracle, rcVars, plVars, itVars>>

\* the while condition fails: lines 514-531 return the (empty) route
PM_LoopExit ==
    /\ pm_pc = "while"
    /\ final_visit_plan_data = <<>>
    /\ final_arrival_time' = ReportedArrival(final_arrival_time)
    /\ pm_pc' = "done"
    /\ UNCHANGED <<meeting_resolved, arrival_at_hub_dt, meeting_start_dt,
                   arrival_commute_min, city_companies, first_filtered_companies,
                   idx, available_companies, final_visit_plan_data, tentative_len, current_time,
                   current_route_items, pre_meeting_route_final,
                   pm_error_message, walks, walk_calls, llm_called, merged_len, center_location, driving_time_oracle, rcVars, plVars, itVars>>

\* variant: a failed hop query is asked again instead of ending the walk
PM_HopMutAskAgain(t) ==
    /\ pm_pc = "hop"
    /\ idx <= Len(final_visit_plan_data)
    /\ walk_calls' = walk_calls + 1
    /\ IF t = None
       THEN UNCHANGED <<final_visit_plan_data, pm_pc, current_time,
                        current_route_items, idx>>
       ELSE /\ current_route_items' =
                 current_route_items \o
                 HopItems(final_visit_plan_data[idx], current_time, t[1])
            /\ current_time' = current_time + t[1] + VISIT
            /\ idx' = idx + 1
            /\ pm_pc' = IF idx + 1 > Len(final_visit_plan_data) THEN "final" ELSE "hop"
            /\ UNCHANGED final_visit_plan_data
    /\ UNCHANGED <<meeting_resolved, arrival_at_hub_dt, meeting_start_dt,
                   arrival_commute_min, city_companies, first_filtered_companies,
                   available_companies, tentative_len,
                   pre_meeting_route_final, final_arrival_time,
                   pm_error_message, walks, llm_called, merged_len,
                   center_location, driving_time_oracle, rcVars, plVars, itVars>>

\* One iteration of `for i, visit_item in enumerate(final_visit_plan_data)`
\* with routing answer t for current_loc -> company (lines 430-470); a failed
\* hop breaks out and lines 473-477 drop the last company.
PM_Hop(t) ==
    /\ pm_pc = "hop"
    /\ idx <= Len(final_visit_plan_data)
    /\ walk_calls' = walk_calls + 1
    /\ IF t = None
       THEN /\ final_visit_plan_data' = Pop(final_visit_plan_data)
            /\ pm_pc' = "while"
            /\ UNCHANGED <<current_time, current_route_items, idx>>
       ELSE /\ current_route_items' =
                 current_route_items \o
                 HopItems(final_visit_plan_data[idx], current_time, t[1])
            /\ current_time' = current_time + t[1] + VISIT
            /\ idx' = idx + 1
            /\ pm_pc' = IF idx + 1 > Len(final_visit_plan_data) THEN "final" ELSE "hop"
            /\ UNCHANGED final_visit_plan_data
    /\ UNCHANGED <<meeting_resolved, arrival_at_hub_dt, meeting_start_dt,
                   arrival_commute_min, city_companies, first_filtered_companies,
                   available_companies, tentative_len,
                   pre_meeting_route_final, final_arrival_time,
                   pm_error_message, walks, llm_called, merged_len, center_location, driving_time_oracle, rcVars, plVars, itVars>>

\* variant: a late walk removes the last two companies
PM_FinalMutDropTwo(t) ==
    /\ pm_pc = "final"
    /\ walk_calls' = walk_calls + 1
    /\ IF t = None
       THEN /\ final_visit_plan_data' = Pop(final_visit_plan_data)
            /\ pm_pc' = "while"
            /\ UNCHANGED <<current_route_items, pre_meeting_route_final,
                           final_arrival_time>>
       ELSE /\ final_arrival_time' = Some(current_time + t[1])
            /\ IF Acceptable(current_time + t[1])
               THEN /\ current_route_items' =
                         Append(current_route_items, FinalItem(current_time, t[1]))
                    /\ pre_meeting_route_final' = current_route_items'
                    /\ pm_pc' = "done"
                    /\ UNCHANGED final_visit_plan_data
               ELSE /\ final_visit_plan_data' = Pop(Pop(final_visit_plan_data))
                    /\ pm_pc' = "while"
                    /\ UNCHANGED <<current_route_items, pre_meeting_route_final>>
    /\ UNCHANGED <<meeting_resolved, arrival_at_hub_dt, meeting_start_dt,
                   arrival_commute_min, city_companies, first_filtered_companies,
                   idx, available_companies, tentative_len,
                   current_time, pm_error_message, walks, llm_called, merged_len,
                   center_location, driving_time_oracle, rcVars, plVars, itVars>>

\* Lines 479-512 with routing answer t for current_loc -> meeting_loc, and on
\* acceptance the return of lines 514-531.
PM_Final(t) ==
    /\ pm_pc = "final"
    /\ walk_calls' = walk_calls + 1
    /\ IF t = None
       THEN /\ final_visit_plan_data' = Pop(final_visit_plan_data)
            /\ pm_pc' = "while"
            /\ UNCHANGED <<current_route_items, pre_meeting_route_final,
                           final_arrival_time>>
       ELSE /\ final_arrival_time' = Some(current_time + t[1])
            /\ IF Acceptable(current_time + t[1])
               THEN /\ current_route_items' =
                         Append(current_route_items, FinalItem(current_time, t[1]))
                    /\ pre_meeting_route_final' = current_route_items'
                    /\ pm_pc' = "done"
                    /\ UNCHANGED final_visit_plan_data
               ELSE /\ final_visit_plan_data' = Pop(final_visit_plan_data)
                    /\ pm_pc' = "while"
                    /\ UNCHANGED <<current_route_items, pre_meeting_route_final>>
    /\ UNCHANGED <<meeting_resolved, arrival_at_hub_dt, meeting_start_dt,
                   arrival_commute_min, city_companies, first_filtered_companies,
                   idx, available_companies, tentative_len,
                   current_time, pm_error_message, walks, llm_called, merged_len, center_location, driving_time_oracle, rcVars, plVars, itVars>>

\* variant: an empty route is reported as an error and ends the run
PM_ReturnMutAbortOnEmpty ==
    /\ pm_pc = "done"
    /\ node = "pre_meeting_plan"
    /\ executed' = Append(executed, "pre_meeting_plan")
    /\ error_message' = IF pre_meeting_route_final = <<>>
                        THEN Some("pre_meeting_plan") ELSE pm_error_message
    /\ node' = IF pre_meeting_route_final = <<>> THEN "END" ELSE "post_meeting_plan"
    /\ UNCHANGED <<transport_options, llm_answer, selected_option_raw,
                   selected_transport, rcVars, pmVars, itVars>>

\* pre_meeting_plan returns (lines 378, 385, 415, 527-531): the graph merges
\* the returned error_message into the state and follows the fixed edge
\* pre_meeting_plan -> post_meeting_plan (graph.py line 116)
PM_Return ==
    /\ pm_pc = "done"
    /\ node = "pre_meeting_plan"
    /\ executed' = Append(executed, "pre_meeting_plan")
    /\ error_message' = pm_error_message
    /\ node' = "post_meeting_plan"
    /\ UNCHANGED <<transport_options, llm_answer, selected_option_raw,
                   selected_transport, rcVars, pmVars, itVars>>

-----------------------------------------------------------------------------
(***************************************************************************)
(* The pipeline: build_travel_graph (src/graph.py) over the nodes of       *)
(* src/nodes.py.  A step runs one node, merges the dictionary it returns   *)
(* into the state and follows the outgoing (conditional) edge.  A run      *)
(* starts from the state app.py builds: user_input, error_message = None   *)
(* and no other key.                                                       *)
(***************************************************************************)

\* offers traffic_query may collect in one run
MaxOffers == 2

OfferTypes == {"Flight", "Train"}

OfferIds == {"G101", "MU5331"}

\* an identifier no provider returned
UnknownId == "X000"

\* scheduled arrival times at the hub (tenths of a minute since midnight):
\* 10:00 and 13:20
ArrivalTimes == {6000, 8000}

\* A TransitOffer as query_flight_api / query_train_api build it; the same
\* (type, id) can be offered on the previous day and on the meeting day.
Offers == [type : OfferTypes, id : OfferIds, departure_date : {"previous", "target"},
           arrival_time : ArrivalTimes]

\* raw_output of the decision chain: the chain raised, the parser returned
\* something that is not a dict, or a dict with type and id
LLMAnswers ==
    {[kind |-> "exception", type |-> "", id |-> ""],
     [kind |-> "notdict", type |-> "", id |-> ""]}
    \cup [kind : {"dict"}, type : OfferTypes, id : OfferIds \cup {UnknownId}]

PRE_MEETING_BUFFER_MINUTES == 90

\* user_data['meeting_start_dt'] of the run: 14:00 on the meeting day, in
\* tenths of a minute since that day's midnight
meeting_start_of_run == 8400

\* tenths of a minute in a day
DAY == 14400

\* the instant an offer is scheduled to reach the hub: its arrival time on
\* the day it was queried for
ScheduledArrival(opt) ==
    IF opt.departure_date = "previous" THEN opt.arrival_time - DAY
    ELSE opt.arrival_time

\* arrival_commute_minutes of select_transport_by_llm (lines 189-190): the
\* routing answer for reference hub -> venue, or 60.0 when it is None
ReferenceCommutes ==
    {IF t = None THEN 600 ELSE t[1] : t \in {None, Some(FALLBACK_TENTHS), Some(255)}}

\* latest_hub_arrival_dt = meeting_start_dt - timedelta(minutes=total_buffer)
\* with total_buffer = PRE_MEETING_BUFFER_MINUTES + arrival_commute_time
latest_hub_arrival_dt(arrival_commute_time) ==
    meeting_start_of_run - (10 * PRE_MEETING_BUFFER_MINUTES + arrival_commute_time)

\* variant: offers are matched by id alone
MatchesMutIdOnly(opt, answer) == opt.id = answer.id

\* opt.get('id') == selected_id and opt.get('type') == selected_type
Matches(opt, answer) == opt.id = answer.id /\ opt.type = answer.type

HasMatch(options, answer) ==
    \E i \in 1..Len(options) : Matches(options[i], answer)

FirstMatch(options, answer) ==
    options[CHOOSE i \in 1..Len(options) :
               /\ Matches(options[i], answer)
               /\ \A j \in 1..(i-1) : ~Matches(options[j], answer)]

\* variant: the answer is trusted without looking it up in the offers
llm_choose_transportMutEcho(options, answer) ==
    IF answer.kind = "dict"
    THEN Some([type |-> answer.type, id |-> answer.id, departure_date |-> "target",
               arrival_time |-> 6000])
    ELSE None

\* llm_choose_transport (llm_agent.py 63-109): the first offer of the
\* original list carrying the answer's id and type, else None
llm_choose_transport(options, answer) ==
    IF answer.kind = "dict" /\ HasMatch(options, answer)
    THEN Some(FirstMatch(options, answer))
    ELSE None

\* conditional edges of graph.py
decide_next_step(err) ==
    IF err # None THEN "END" ELSE "geocode_locations"

decide_after_traffic_query(err) ==
    IF err # None THEN "END" ELSE "select_transport_by_llm"

decide_after_llm_select(raw) ==
    IF raw # None THEN "calculate_final_transport" ELSE "END"

\* variant: the run goes on to pre_meeting_plan whatever was calculated
decide_after_traffic_calculationMutAlways(st) == "pre_meeting_plan"

decide_after_traffic_calculation(st) ==
    IF st # None THEN "pre_meeting_plan" ELSE "END"

InitPL ==
    /\ node = "check_constraints"
    /\ executed = <<>>
    /\ error_message = None
    /\ transport_options = <<>>
    /\ llm_answer = None
    /\ selected_option_raw = None
    /\ selected_transport = None
    /\ post_meeting_route = <<>>
    /\ itinerary_items = <<>>

\* check_constraints: ok, or an error message (missing keys, bad time format)
Run_check_constraints ==
    /\ node = "check_constraints"
    /\ executed' = Append(executed, "check_constraints")
    /\ \E err \in {None, Some("check_constraints")} :
         /\ error_message' = err
         /\ node' = decide_next_step(err)
    /\ UNCHANGED <<transport_options, llm_answer, selected_option_raw,
                   selected_transport, rcVars, pmVars, itVars>>

\* geocode_locations always returns error_message None
Run_geocode_locations ==
    /\ node = "geocode_locations"
    /\ executed' = Append(executed, "geocode_locations")
    /\ error_message' = None
    /\ node' = "traffic_query"
    /\ UNCHANGED <<transport_options, llm_answer, selected_option_raw,
                   selected_transport, rcVars, pmVars, itVars>>

\* traffic_query: the collected offers; none at all is an error
Run_traffic_query ==
    /\ node = "traffic_query"
    /\ executed' = Append(executed, "traffic_query")
    /\ \E options \in SeqsUpTo(Offers, MaxOffers) :
         IF options = <<>>
         THEN /\ error_message' = Some("traffic_query")
              /\ UNCHANGED transport_options
              /\ node' = decide_after_traffic_query(error_message')
         ELSE /\ error_message' = None
              /\ transport_options' = options
              /\ node' = decide_after_traffic_query(error_message')
    /\ UNCHANGED <<llm_answer, selected_option_raw, selected_transport,
                   rcVars, pmVars, itVars>>

\* select_transport_by_llm: geocoding a reference hub may fail (lines
\* 172-180); otherwise the oracle answers and llm_choose_transport resolves
\* the answer against transport_options (lines 195-211).  Every offer built
\* by the query functions carries 'departure_time'.
Run_select_transport_by_llm ==
    /\ node = "select_transport_by_llm"
    /\ executed' = Append(executed, "select_transport_by_llm")
    /\ \/ /\ error_message' = Some("geocode reference hub")
          /\ UNCHANGED <<llm_answer, selected_option_raw>>
       \/ \E answer \in LLMAnswers :
            /\ llm_answer' = Some(answer)
            /\ \E chosen \in {llm_choose_transport(transport_options, answer)} :
                 IF chosen = None
                 THEN /\ error_message' = Some("select_transport_by_llm")
                      /\ UNCHANGED selected_option_raw
                 ELSE /\ error_message' = None
                      /\ selected_option_raw' = chosen
    /\ node' = decide_after_llm_select(selected_option_raw')
    /\ UNCHANGED <<transport_options, selected_transport, rcVars, pmVars, itVars>>

\* what get_amap_driving_time returns for a mandatory leg (home -> departure
\* hub, arrival hub -> venue): None, the fallback, or a duration
CommuteAnswers == {None, Some(FALLBACK_TENTHS), Some(255)}

\* the 60.0 of `get_amap_driving_time(...) or 60.0`, in tenths of a minute
COMMUTE_DEFAULT_TENTHS == 600

\* `x or 60.0` (lines 270-271): None and 0.0 are falsy
OrDefault(t) == IF t = None \/ t[1] = 0 THEN COMMUTE_DEFAULT_TENTHS ELSE t[1]

\* calculate_final_transport, lines 220-263: no selected option, a time that
\* does not parse or a hub that does not geocode give an error message and
\* no selected_transport
CFT_Fail ==
    /\ node = "calculate_final_transport"
    /\ executed' = Append(executed, "calculate_final_transport")
    /\ error_message' = Some("calculate_final_transport")
    /\ node' = decide_after_traffic_calculation(selected_transport)
    /\ UNCHANGED <<transport_options, llm_answer, selected_option_raw,
                   selected_transport, rcVars, pmVars, itVars>>

\* calculate_final_transport, lines 265-305, with the routing answers th
\* (home -> departure hub) and ta (arrival hub -> venue): selected_transport
\* is built with the two commutes
CFT_Commute(th, ta) ==
    /\ node = "calculate_final_transport"
    /\ selected_option_raw # None
    /\ executed' = Append(executed, "calculate_final_transport")
    /\ error_message' = None
    /\ selected_transport' = Some([raw_option |-> selected_option_raw[1],
                                   home_commute_min |-> OrDefault(th),
                                   arrival_commute_min |-> OrDefault(ta)])
    /\ node' = decide_after_traffic_calculation(selected_transport')
    /\ UNCHANGED <<transport_options, llm_answer, selected_option_raw,
                   rcVars, pmVars, itVars>>

Run_calculate_final_transport ==
    \/ CFT_Fail
    \/ \E th \in CommuteAnswers, ta \in CommuteAnswers : CFT_Commute(th, ta)

\* pre_meeting_plan, post_meeting_plan and generate_final_itinerary return
\* error_message None when selected_transport is set; fixed edges follow
Run_pre_meeting_plan ==
    /\ node = "pre_meeting_plan"
    /\ executed' = Append(executed, "pre_meeting_plan")
    /\ error_message' = IF selected_transport = None
                        THEN Some("pre_meeting_plan") ELSE None
    /\ node' = "post_meeting_plan"
    /\ UNCHANGED <<transport_options, llm_answer, selected_option_raw,
                   selected_transport, rcVars, pmVars, itVars>>

\* user_data['meeting_duration_h'] (data_models.py line 22: an int, and
\* check_constraints line 23 only requires it to be truthy)
MeetingDurations == {-1, 2}

\* get_amap_driving_time(meeting_loc, hotel_loc)
HotelCommuteAnswers == {None, Some(0), Some(255)}

\* `get_amap_driving_time(current_loc, hotel_loc) or 30.0` (line 570): None
\* and 0.0 are falsy
HotelCommute(t) == IF t = None \/ t[1] = 0 THEN 300 ELSE t[1]

\* lines 543-598: the meeting, the drive to the hotel and the check-in
PostMeetingRoute(meeting_start, meeting_duration_h, commute_to_hotel_min) ==
    LET meeting_end == meeting_start + 600 * meeting_duration_h
        arrival_at_hotel == meeting_end + commute_to_hotel_min
    IN << [type |-> "meeting", start_time |-> meeting_start,
           end_time |-> meeting_end, location |-> "Meeting Venue",
           duration_min |-> 600 * meeting_duration_h],
          [type |-> "transport", start_time |-> meeting_end,
           end_time |-> arrival_at_hotel, location |-> "Hotel",
           duration_min |-> commute_to_hotel_min],
          [type |-> "hotel", start_time |-> arrival_at_hotel,
           end_time |-> arrival_at_hotel + 300, location |-> "Hotel",
           duration_min |-> 300] >>

\* post_meeting_plan, lines 533-603
Run_post_meeting_plan ==
    /\ node = "post_meeting_plan"
    /\ executed' = Append(executed, "post_meeting_plan")
    /\ error_message' = None
    /\ node' = "generate_final_itinerary"
    /\ \E d \in MeetingDurations, t \in HotelCommuteAnswers :
          post_meeting_route' = PostMeetingRoute(meeting_start_dt, d, HotelCommute(t))
    /\ UNCHANGED <<transport_options, llm_answer, selected_option_raw,
                   selected_transport, itinerary_items, rcVars, pmVars>>

\* selected_transport['details'].get('itinerary', []) (line 617): the item
\* calculate_final_transport builds has no 'itinerary' among its details
main_route == <<>>

\* `item` put into a list sorted by start_time, after the items that start
\* no later than it (list.sort is stable)
RECURSIVE InsertByStart(_, _)
InsertByStart(item, sorted) ==
    IF sorted = <<>> THEN <<item>>
    ELSE IF Head(sorted).start_time <= item.start_time
         THEN <<Head(sorted)>> \o InsertByStart(item, Tail(sorted))
         ELSE <<item>> \o sorted

\* itinerary_items.sort(key=lambda x: x['start_time']) (line 629), the items
\* of `items` from position i on being inserted into acc in order
RECURSIVE SortByStart(_, _, _)
SortByStart(items, i, acc) ==
    IF i > Len(items) THEN acc
    ELSE SortByStart(items, i + 1, InsertByStart(items[i], acc))

\* generate_final_itinerary, lines 606-646
Run_generate_final_itinerary ==
    /\ node = "generate_final_itinerary"
    /\ executed' = Append(executed, "generate_final_itinerary")
    /\ error_message' = None
    /\ node' = "END"
    /\ itinerary_items' =
           SortByStart(main_route \o pre_meeting_route_final \o post_meeting_route,
                       1, <<>>)
    /\ UNCHANGED <<transport_options, llm_answer, selected_option_raw,
                   selected_transport, post_meeting_route, rcVars, pmVars>>

Next ==
    \/ Run_check_constraints
    \/ Run_geocode_locations
    \/ Run_traffic_query
    \/ Run_select_transport_by_llm
    \/ Run_calculate_final_transport
    \/ Run_pre_meeting_plan
    \/ Run_post_meeting_plan
    \/ Run_generate_final_itinerary


-----------------------------------------------------------------------------
(***************************************************************************)
(* Specifications                                                          *)
(***************************************************************************)

\* the routing client at rest, for the specifications that do not step it
IdleRC ==
    /\ AMAP_API_KEY = TRUE
    /\ rc_pc = "idle"
    /\ origin = [lat |-> "None", lon |-> "None"]
    /\ destination = [lat |-> "None", lon |-> "None"]
    /\ attempt = 0
    /\ wait_time = INITIAL_WAIT_TIME
    /\ requests = 0
    /\ sleeps = <<>>
    /\ responses = <<>>
    /\ result = None
    /\ calls = 0

\* pre_meeting_plan not entered
IdlePM ==
    /\ pm_pc = "idle"
    /\ meeting_resolved = TRUE
    /\ arrival_at_hub_dt = 0
    /\ meeting_start_dt = 0
    /\ arrival_commute_min = 0
    /\ city_companies = <<>>
    /\ first_filtered_companies = <<>>
    /\ idx = 1
    /\ available_companies = <<>>
    /\ final_visit_plan_data = <<>>
    /\ tentative_len = 0
    /\ current_time = 0
    /\ current_route_items = <<>>
    /\ pre_meeting_route_final = <<>>
    /\ final_arrival_time = None
    /\ pm_error_message = None
    /\ walks = 0
    /\ walk_calls = 0
    /\ llm_called = FALSE
    /\ merged_len = 0
    /\ center_location = arrival_hub_loc
    /\ driving_time_oracle = Unconstrained

\* the pipeline not started
IdlePL ==
    /\ node = "idle"
    /\ executed = <<>>
    /\ error_message = None
    /\ transport_options = <<>>
    /\ llm_answer = None
    /\ selected_option_raw = None
    /\ selected_transport = None
    /\ post_meeting_route = <<>>
    /\ itinerary_items = <<>>

\* the pipeline at the entry of pre_meeting_plan: the five nodes before it
\* ran without error and selected_transport is set
AtPreMeetingPL ==
    /\ node = "pre_meeting_plan"
    /\ executed = <<"check_constraints", "geocode_locations", "traffic_query",
                    "select_transport_by_llm", "calculate_final_transport">>
    /\ error_message = None
    /\ transport_options = <<[type |-> "Train", id |-> "G101",
                               departure_date |-> "target", arrival_time |-> 6000]>>
    /\ llm_answer = Some([kind |-> "dict", type |-> "Train", id |-> "G101"])
    /\ selected_option_raw = Some(transport_options[1])
    /\ selected_transport = Some([raw_option |-> transport_options[1],
                                  home_commute_min |-> 255,
                                  arrival_commute_min |-> 255])
    /\ post_meeting_route = <<>>
    /\ itinerary_items = <<>>

NextRC ==
    \/ \E o \in Location, d \in Location : RC_Call(o, d)
    \/ \E r \in OracleResponses : RC_Attempt(r)

InitRouting == InitRC /\ IdlePM /\ IdlePL

SpecRouting == InitRouting /\ [][NextRC]_vars

\* pre_meeting_plan from its entry to its return, then the rest of the graph
NextPM ==
    \/ \E t \in DrivingTimeResults(TRUE, TRUE) : PM_Filter(t)
    \/ PM_FilterDone
    \/ \E th \in DrivingTimeResults(TRUE, TRUE),
          tm \in DrivingTimeResults(TRUE, meeting_resolved) : PM_Eligibility(th, tm)
    \/ PM_EligibilityDone
    \/ pm_pc = "score" /\ \E out \in LLMOutputs(NamesOf(available_companies)) : PM_Score(out)
    \/ PM_WalkBegin
    \/ PM_LoopExit
    \/ \E t \in DrivingTimeResults(TRUE, TRUE) : PM_Hop(t)
    \/ \E t \in DrivingTimeResults(TRUE, meeting_resolved) : PM_Final(t)
    \/ PM_Return
    \/ Run_post_meeting_plan
    \/ Run_generate_final_itinerary

InitPlan == IdleRC /\ InitPM /\ AtPreMeetingPL

SpecPlan == InitPlan /\ [][NextPM]_vars

Init == IdleRC /\ IdlePM /\ InitPL

Spec == Init /\ [][Next]_vars

-----------------------------------------------------------------------------
(***************************************************************************)
(* The worked example: 180 minutes available, three companies in the       *)
(* directory, a routing oracle that reports the road times below or fails, *)
(* and a value oracle that scores the companies it is asked about, in any  *)
(* order, or returns nothing.                                              *)
(***************************************************************************)

ScenarioCompanies == <<"A", "B", "C">>

\* road times the routing oracle reports, in tenths of a minute
ScenarioRoad(from, to) ==
    CASE from = "hub" /\ to = "A" -> 200
      [] from = "hub" /\ to = "B" -> 100
      [] from = "hub" /\ to = "C" -> 500
      [] from = "A" /\ to = "meeting" -> 250
      [] from = "B" /\ to = "meeting" -> 150
      [] from = "C" /\ to = "meeting" -> 600
      [] from = "B" /\ to = "A" -> 200
      [] from = "A" /\ to = "B" -> 200
      [] OTHER -> 400

\* get_amap_driving_time(from, to): the road time, or None after a failure
ScenarioAnswers(from, to) == {None, Some(ScenarioRoad(from, to))}

\* the value oracle's entry for a company
ScenarioEntry(n) ==
    CASE n = "A" -> [name |-> "A", S_attract |-> NumField(9), S_feas |-> NumField(8)]
      [] n = "B" -> [name |-> "B", S_attract |-> NumField(7), S_feas |-> NumField(9)]
      [] OTHER   -> [name |-> n, S_attract |-> NumField(5), S_feas |-> NumField(5)]

\* the entries of `names` in every order, or the empty list
ScenarioOutputs(names) ==
    {<<>>} \cup
    { [i \in 1..Cardinality(names) |-> ScenarioEntry(f[i])] :
        f \in { g \in [1..Cardinality(names) -> names] :
                  \A i, j \in 1..Cardinality(names) : g[i] = g[j] => i = j } }

\* where the walk stands: the hub, or the company visited last
current_loc == IF idx = 1 THEN "hub" ELSE final_visit_plan_data[idx - 1]

\* entry of pre_meeting_plan in the worked example: hub arrival 10:00,
\* meeting at 13:30, so latest arrival 13:00 and 180 minutes available
ScenarioPM ==
    /\ pm_pc = "filter"
    /\ meeting_resolved = TRUE
    /\ arrival_at_hub_dt = 6000
    /\ meeting_start_dt = 8100
    /\ arrival_commute_min = 255
    /\ city_companies = ScenarioCompanies
    /\ first_filtered_companies = <<>>
    /\ idx = 1
    /\ available_companies = <<>>
    /\ final_visit_plan_data = <<>>
    /\ tentative_len = 0
    /\ current_time = 0
    /\ current_route_items = <<>>
    /\ pre_meeting_route_final = <<>>
    /\ final_arrival_time = None
    /\ pm_error_message = None
    /\ walks = 0
    /\ walk_calls = 0
    /\ llm_called = FALSE
    /\ merged_len = 0
    /\ center_location = arrival_hub_loc

NextScenario ==
    \/ /\ pm_pc = "filter" /\ idx <= Len(city_companies)
       /\ \E t \in ScenarioAnswers("hub", city_companies[idx]) : PM_Filter(t)
    \/ PM_FilterDone
    \/ /\ pm_pc = "eligibility" /\ idx <= Len(first_filtered_companies)
       /\ \E th \in ScenarioAnswers("hub", first_filtered_companies[idx].name),
             tm \in ScenarioAnswers(first_filtered_companies[idx].name, "meeting") :
               PM_Eligibility(th, tm)
    \/ PM_EligibilityDone
    \/ /\ pm_pc = "score"
       /\ \E out \in ScenarioOutputs(NamesOf(available_companies)) : PM_Score(out)
    \/ PM_WalkBegin
    \/ PM_LoopExit
    \/ /\ pm_pc = "hop" /\ idx <= Len(final_visit_plan_data)
       /\ \E t \in ScenarioAnswers(current_loc, final_visit_plan_data[idx]) : PM_Hop(t)
    \/ /\ pm_pc = "final"
       /\ \E t \in ScenarioAnswers(current_loc, "meeting") : PM_Final(t)
    \/ PM_Return
    \/ Run_post_meeting_plan
    \/ Run_generate_final_itinerary

InitScenario ==
    IdleRC /\ ScenarioPM /\ AtPreMeetingPL /\ driving_time_oracle = Unconstrained

SpecScenario == InitScenario /\ [][NextScenario]_vars

-----------------------------------------------------------------------------
(***************************************************************************)
(* Claims about the truncation loop (SpecPlan)                             *)
(***************************************************************************)

\* C1: for a tentative list of n candidates and any routing answers, the
\* truncation loop starts at most n+1 forward walks; while it runs, the
\* walks started plus the candidates still listed never exceed n+1, so every
\* further walk has fewer candidates and the loop stops.
C1_WalkBound ==
    /\ walks <= tentative_len + 1
    /\ pm_pc \in {"while", "hop", "final"} =>
           walks + Len(final_visit_plan_data) <= tentative_len + 1
    /\ pm_pc = "done" /\ walks > 0 =>
           \/ pre_meeting_route_final # <<>>
           \/ final_visit_plan_data = <<>>

\* every candidate of a two-candidate list was dropped, one per walk
C1_Witness ==
    /\ pm_pc = "done"
    /\ tentative_len = 2
    /\ walks = 2
    /\ final_visit_plan_data = <<>>
    /\ pre_meeting_route_final = <<>>

\* C2: a non-empty returned route comes with a final arrival instant, the
\* end of its last segment (the hop to the venue), that is at or before the
\* deadline meeting_start - POST_ARRIVAL_BUFFER_MINUTES.
C2_ArrivalByDeadline ==
    (pm_pc = "done" /\ pre_meeting_route_final # <<>>) =>
        /\ final_arrival_time # None
        /\ final_arrival_time[1] <= meeting_start_dt - 10 * POST_ARRIVAL_BUFFER_MINUTES
        /\ pre_meeting_route_final[Len(pre_meeting_route_final)].end_time
               = final_arrival_time[1]
        /\ pre_meeting_route_final[Len(pre_meeting_route_final)].location
               = "Meeting Venue"

\* a route accepted on the second walk, after one walk was rejected
C2_Witness ==
    /\ pm_pc = "done"
    /\ pre_meeting_route_final # <<>>
    /\ walks = 2

\* C3: every company visited in a non-empty returned route is an eligible
\* company whose recorded legs satisfy
\* T_hub_to_i + VISIT_DURATION + T_i_to_meeting <= available_minutes.
C3_VisitedWereEligible ==
    (pm_pc = "done" /\ pre_meeting_route_final # <<>>) =>
        \A i \in 1..Len(pre_meeting_route_final) :
            pre_meeting_route_final[i].type = "company_visit" =>
                \E j \in 1..Len(available_companies) :
                    /\ available_companies[j].name = pre_meeting_route_final[i].location
                    /\ available_companies[j].T_hub_to_i
                         + 10 * COMPANY_VISIT_DURATION_MINUTES
                         + available_companies[j].T_i_to_meeting
                       <= (meeting_start_dt - 10 * POST_ARRIVAL_BUFFER_MINUTES)
                          - arrival_at_hub_dt

\* a returned route with two visits, one of them to a company whose
\* recorded hub leg is the long one
C3_Witness ==
    /\ pm_pc = "done"
    /\ Len(pre_meeting_route_final) = 5
    /\ \E j \in 1..Len(available_companies) :
           /\ available_companies[j].T_hub_to_i = 900
           /\ \E i \in 1..5 :
                  /\ pre_meeting_route_final[i].type = "company_visit"
                  /\ pre_meeting_route_final[i].location = available_companies[j].name

-----------------------------------------------------------------------------
(***************************************************************************)
(* Claims about get_amap_driving_time (SpecRouting)                        *)
(***************************************************************************)

\* the durations a successful call can return, in tenths of a minute
SuccessResults == {Some(RoundTenths(s)) : s \in DurationSeconds}

\* C4: when the oracle answers rate-limited twice and then succeeds, the
\* call has returned the successful duration after exactly 3 requests and
\* exactly 2 sleeps, of 1 s and then 2 s.
C4_TwoLimitsThenSuccess ==
    (Len(responses) >= 3 /\ SubSeq(responses, 1, 3) = <<"limit", "limit", "success">>) =>
        /\ rc_pc = "returned"
        /\ result \in SuccessResults
        /\ requests = 3
        /\ sleeps = <<1, 2>>

C4_Witness ==
    /\ rc_pc = "returned"
    /\ responses = <<"limit", "limit", "success">>

\* C5: when the oracle answers rate-limited on three consecutive requests,
\* the call has returned None after exactly 3 requests; no fourth request
\* is issued.
C5_ThreeLimitsFail ==
    (Len(responses) >= 3 /\ SubSeq(responses, 1, 3) = <<"limit", "limit", "limit">>) =>
        /\ rc_pc = "returned"
        /\ result = None
        /\ requests = 3
        /\ Len(responses) = 3

C5_Witness ==
    /\ rc_pc = "returned"
    /\ responses = <<"limit", "limit", "limit">>

\* C6: get_amap_driving_time never raises: whatever the Location pair and
\* the oracle outcomes, a call that ended returned None or a number of
\* minutes.
C6_NeverRaises ==
    /\ rc_pc # "raised"
    /\ rc_pc = "returned" => (result = None \/ (Len(result) = 1 /\ result[1] \in Nat))

\* a malformed response (an exception other than RequestException inside
\* the try) ended a call
C6_Witness ==
    /\ rc_pc = "returned"
    /\ Len(responses) >= 1
    /\ responses[Len(responses)] = "Exception"
    /\ result = None

\* C7: an oracle error that is not rate-limit-class ends the call at once
\* with None: it is the last response, no sleep follows it and no further
\* request is sent, however many attempts remain.
C7_ErrorFailsAtOnce ==
    \A i \in 1..Len(responses) :
        responses[i] = "error" =>
            /\ i = Len(responses)
            /\ rc_pc = "returned"
            /\ result = None
            /\ requests = i
            /\ Len(sleeps) = i - 1

\* an error on the second attempt, with one attempt left
C7_Witness ==
    /\ rc_pc = "returned"
    /\ responses = <<"limit", "error">>

\* the call's responses so far are all retryable failures
OnlyRetryable ==
    \A i \in 1..Len(responses) : responses[i] \in {"limit", "RequestException"}

\* C8: transport failures are retried on the schedule of rate-limit
\* answers: for every mix of the two, at most 3 attempts, a sleep of 1 s
\* after the first failure and 2 s after the second, and None when the third
\* attempt fails too.
C8_NetworkSameSchedule ==
    (rc_pc # "idle" /\ OnlyRetryable) =>
        /\ Len(responses) <= 3
        /\ requests = Len(responses)
        /\ Len(responses) = 0 => sleeps = <<>>
        /\ Len(responses) = 1 => (sleeps = <<1>> /\ rc_pc = "loop")
        /\ Len(responses) = 2 => (sleeps = <<1, 2>> /\ rc_pc = "loop")
        /\ Len(responses) = 3 => (sleeps = <<1, 2>> /\ rc_pc = "returned" /\ result = None)

C8_Witness ==
    /\ rc_pc = "returned"
    /\ responses = <<"RequestException", "RequestException", "RequestException">>

\* C9 (as claimed): with the key configured, a call in which an endpoint has
\* no latitude or no longitude returns the fallback 35.0 and sends no
\* request.
C9_FallbackWhenAnyCoordinateMissing ==
    (/\ AMAP_API_KEY
     /\ rc_pc # "idle"
     /\ \/ origin.lat = "None" \/ origin.lon = "None"
        \/ destination.lat = "None" \/ destination.lon = "None") =>
        /\ rc_pc = "returned"
        /\ result = Some(350)
        /\ requests = 0

-----------------------------------------------------------------------------
(***************************************************************************)
(* Claims about the pipeline (Spec)                                        *)
(***************************************************************************)

Executed(n) == \E i \in 1..Len(executed) : executed[i] = n

\* the oracle answered with a dict whose (type, id) no offer carries
AnswerMatchesNoOffer ==
    /\ llm_answer # None
    /\ llm_answer[1].kind = "dict"
    /\ \A i \in 1..Len(transport_options) :
           ~(/\ transport_options[i].type = llm_answer[1].type
             /\ transport_options[i].id = llm_answer[1].id)

\* C10: when the transit-choice oracle names a (type, id) that no offer of
\* the original set carries, selection leaves an error message and no
\* selected offer, the run ends, and calculate_final_transport never runs.
C10_MismatchEndsRun ==
    AnswerMatchesNoOffer =>
        /\ error_message # None
        /\ selected_option_raw = None
        /\ node = "END"
        /\ ~Executed("calculate_final_transport")

\* the answer's id is carried by an offer of the other type
C10_Witness ==
    /\ AnswerMatchesNoOffer
    /\ node = "END"
    /\ \E i \in 1..Len(transport_options) : transport_options[i].id = llm_answer[1].id


\* C11: whenever selection succeeded, the selected record is one of the
\* offers traffic_query collected, and its type and id are the ones the
\* oracle answered; being an element of the offer list, every field of it
\* (the departure date included) comes from the offer, none from the answer.
C11_SelectedIsOriginalOffer ==
    selected_option_raw # None =>
        /\ llm_answer # None
        /\ llm_answer[1].kind = "dict"
        /\ \E i \in 1..Len(transport_options) :
               transport_options[i] = selected_option_raw[1]
        /\ selected_option_raw[1].type = llm_answer[1].type
        /\ selected_option_raw[1].id = llm_answer[1].id

\* the second of two offers was selected; the first has the same id and
\* the other type
C11_Witness ==
    /\ selected_option_raw # None
    /\ Len(transport_options) = 2
    /\ transport_options[2] = selected_option_raw[1]
    /\ transport_options[1].id = selected_option_raw[1].id
    /\ transport_options[1].type # selected_option_raw[1].type
    /\ node = "calculate_final_transport"

-----------------------------------------------------------------------------
(***************************************************************************)
(* Further claims about pre_meeting_plan (SpecPlan)                        *)
(***************************************************************************)

\* final_visit_plan_data without its last element
AllButLast == SubSeq(final_visit_plan_data, 1, Len(final_visit_plan_data) - 1)

\* the step rejects the walk: one candidate, the last, goes and the walk ends
RejectsWalk ==
    /\ pm_pc' = "while"
    /\ final_visit_plan_data # <<>>
    /\ final_visit_plan_data' = AllButLast

\* C12: a walk is rejected when a hop query fails, when the final hop fails
\* and when the final arrival is past the deadline; each rejection removes
\* exactly the last candidate and keeps the others in order, no other step
\* of a walk changes the list, and the next walk starts at the hub, at the
\* hub-arrival instant, with an empty route.
C12_RejectedWalkDropsLast ==
    [][ /\ PM_Hop(None) => RejectsWalk
        /\ PM_Final(None) => RejectsWalk
        /\ \A t \in DrivingTimeResults(TRUE, meeting_resolved) :
               (t # None /\ current_time + t[1] > latest_arrival_needed /\ PM_Final(t))
                   => RejectsWalk
        /\ (pm_pc \in {"hop", "final"} /\ pm_pc' = "while") => RejectsWalk
        /\ (pm_pc \in {"hop", "final"} /\ pm_pc' # "while") =>
               final_visit_plan_data' = final_visit_plan_data
        /\ (pm_pc = "while" /\ pm_pc' = "hop") =>
               /\ final_visit_plan_data' = final_visit_plan_data
               /\ current_time' = arrival_at_hub_dt
               /\ current_route_items' = <<>>
               /\ idx' = 1
      ]_vars

\* the second walk begins at the hub with the first of two candidates left
C12_Witness ==
    /\ pm_pc = "hop"
    /\ walks = 2
    /\ idx = 1
    /\ tentative_len = 2
    /\ Len(final_visit_plan_data) = 1
    /\ current_time = arrival_at_hub_dt
    /\ current_route_items = <<>>


\* pre_meeting_plan ended with an empty route
EmptyOutcome == pm_pc = "done" /\ pre_meeting_route_final = <<>>

\* C13: when pre_meeting_plan ends with an empty route (no eligible
\* candidate, nothing from the value oracle, nothing planned, or every
\* candidate dropped by the loop) it returns error_message None, and the run
\* goes on: it cannot end before post_meeting_plan and
\* generate_final_itinerary have run.
C13_EmptyRouteIsNoError ==
    EmptyOutcome =>
        /\ pm_error_message = None
        /\ node \in {"pre_meeting_plan", "post_meeting_plan",
                     "generate_final_itinerary", "END"}
        /\ node = "post_meeting_plan" =>
               (error_message = None /\ Executed("pre_meeting_plan"))
        /\ node = "generate_final_itinerary" => Executed("post_meeting_plan")
        /\ node = "END" =>
               /\ Executed("post_meeting_plan")
               /\ Executed("generate_final_itinerary")
               /\ error_message = None

\* the loop dropped both candidates and the run reached its end through
\* post-meeting planning and report generation
C13_Witness ==
    /\ EmptyOutcome
    /\ tentative_len = 2
    /\ walks = 2
    /\ final_visit_plan_data = <<>>
    /\ node = "END"
    /\ Executed("generate_final_itinerary")


-----------------------------------------------------------------------------
(***************************************************************************)
(* Claims about the worked example (SpecScenario)                          *)
(***************************************************************************)

\* the route of the worked example, hub arrival at 6000 (10:00)
ScenarioRoute ==
    << [type |-> "transport", start_time |-> 6000, end_time |-> 6100,
        location |-> "B", duration_min |-> 100],
       [type |-> "company_visit", start_time |-> 6100, end_time |-> 6550,
        location |-> "B", duration_min |-> 450],
       [type |-> "transport", start_time |-> 6550, end_time |-> 6750,
        location |-> "A", duration_min |-> 200],
       [type |-> "company_visit", start_time |-> 6750, end_time |-> 7200,
        location |-> "A", duration_min |-> 450],
       [type |-> "transport", start_time |-> 7200, end_time |-> 7450,
        location |-> "Meeting Venue", duration_min |-> 250] >>

\* A, B and C are all eligible and the value oracle scored them
ScenarioAllScored ==
    /\ Len(available_companies) = 3
    /\ pm_pc \in {"while", "hop", "final", "done"}
    /\ tentative_len > 0

\* what the worked example says of a state
ScenarioOutcome ==
    /\ available_minutes = 1800
    /\ ScenarioAllScored =>
           /\ tentative_len = 2
           /\ walks = 0 => final_visit_plan_data = <<"B", "A">>
           /\ (walks = 1 /\ pm_pc \in {"hop", "final"}) =>
                  final_visit_plan_data = <<"B", "A">>
           \* the first walk is never rejected for its arrival time
           /\ ~(walks = 1 /\ pm_pc = "while" /\ final_arrival_time # None)
           /\ (walks = 1 /\ pm_pc = "done") =>
                  /\ pre_meeting_route_final = ScenarioRoute
                  /\ final_arrival_time = Some(arrival_at_hub_dt + 1450)
                  /\ final_arrival_time[1] <= latest_arrival_needed
                  /\ final_visit_plan_data = <<"B", "A">>
                  /\ walk_calls = 3

\* C14: in the worked example (180 minutes, A, B, C with the given legs and
\* scores, road times hub-B 10, B-A 20, A-meeting 25) every candidate whose
\* two legs are answered passes eligibility; once all three are scored the
\* Sequencer returns B, A and leaves C out; and the first walk, when its
\* three queries are answered, is accepted with the route hub-B, visit B,
\* B-A, visit A, A-meeting, arriving 145 minutes after hub arrival, no
\* candidate dropped.
C14_WorkedExample ==
    [][ /\ ScenarioOutcome'
        /\ (pm_pc = "eligibility" /\ idx <= Len(first_filtered_companies)) =>
               LET n == first_filtered_companies[idx].name
               IN PM_Eligibility(Some(ScenarioRoad("hub", n)),
                                 Some(ScenarioRoad(n, "meeting")))
                      => Len(available_companies') = Len(available_companies) + 1
        /\ (ScenarioAllScored /\ walks = 1 /\ pm_pc = "final"
                /\ PM_Final(Some(ScenarioRoad(current_loc, "meeting"))))
               => pm_pc' = "done"
      ]_vars

\* the accepted route of the worked example
C14_Witness ==
    /\ pm_pc = "done"
    /\ Len(available_companies) = 3
    /\ walks = 1
    /\ pre_meeting_route_final = ScenarioRoute
    /\ final_visit_plan_data = <<"B", "A">>

\* 200 * S_final of the worked example: 6.9, 9.2 and -5.75
ScenarioScore(n) ==
    CASE n = "A" -> 1380
      [] n = "B" -> 1840
      [] n = "C" -> -1150

\* C15: every company the Sequencer scores gets
\* S_final = 0.5*S_attract + 0.3*S_feas - 0.1*T_total + 0.05*T_buffer with
\* T_total = T_hub_to_i + T_i_to_meeting and
\* T_buffer = available_minutes - T_total - 45 (here times 200, times in
\* tenths of a minute); with 180 minutes available that is 6.9 for A, 9.2
\* for B and -5.75 for C.
C15_FinalScores ==
    [][ pm_pc = "score" =>
          \A out \in ScenarioOutputs(NamesOf(available_companies)) :
              PM_Score(out) =>
                  LET scored == SortedCompanies(Merge(out, available_companies).list,
                                                available_minutes)
                  IN \A i \in 1..Len(scored) :
                       LET c == scored[i]
                           T_total == c.T_hub_to_i + c.T_i_to_meeting
                       IN /\ c.T_total_trip = T_total
                          /\ c.T_buffer = available_minutes - T_total - 450
                          /\ c.S_final = 100 * c.S_attract + 60 * c.S_feas
                                         - 2 * T_total + c.T_buffer
                          /\ c.S_final = ScenarioScore(c.name)
      ]_vars

\* all three were scored and the Sequencer ranked B (9.2) before A (6.9)
C15_Witness ==
    /\ pm_pc = "while"
    /\ walks = 0
    /\ Len(available_companies) = 3
    /\ final_visit_plan_data = <<"B", "A">>


-----------------------------------------------------------------------------
(***************************************************************************)
(* Claims about eligibility, the value oracle and the Sequencer (SpecPlan) *)
(***************************************************************************)

\* the list given to the value oracle is not empty and every company in it
\* has two known legs that fit: T_hub_to_i + 45 + T_i_to_meeting <= available
OracleInputEligible ==
    /\ available_companies # <<>>
    /\ \A j \in 1..Len(available_companies) :
           /\ available_companies[j].T_hub_to_i \in Nat
           /\ available_companies[j].T_i_to_meeting \in Nat
           /\ available_companies[j].T_hub_to_i + 450
                + available_companies[j].T_i_to_meeting
              <= (meeting_start_dt - 300) - arrival_at_hub_dt

\* the value oracle is or was asked only about such a list
OracleAskedOnlyEligible ==
    (pm_pc = "score" \/ llm_called) => OracleInputEligible

\* C16: the value oracle is asked only about candidates with both legs
\* resolved and T_hub_to_i + VISIT_DURATION + T_i_to_meeting <=
\* available_minutes; a candidate with a failed leg or one that does not fit
\* is dropped by the eligibility step, before any call of the oracle, and
\* when none remains the oracle is not called.
C16_OracleSeesOnlyEligible ==
    [][ /\ OracleAskedOnlyEligible'
        /\ (pm_pc' = "done" /\ available_companies' = <<>>) => ~llm_called'
        /\ \A th \in DrivingTimeResults(TRUE, TRUE),
              tm \in DrivingTimeResults(TRUE, meeting_resolved) :
               PM_Eligibility(th, tm) =>
                   /\ ~llm_called'
                   /\ (available_companies' # available_companies) <=>
                          /\ th # None
                          /\ tm # None
                          /\ th[1] + 450 + tm[1]
                               <= (meeting_start_dt - 300) - arrival_at_hub_dt
      ]_vars

\* the oracle was asked about one of two filtered companies; the other was
\* dropped by the eligibility step
C16_Witness ==
    /\ llm_called
    /\ Len(first_filtered_companies) = 2
    /\ Len(available_companies) = 1

\* names of the entries of a value-oracle response
EntryNames(out) == {out[k].name : k \in 1..Len(out)}

\* C17: value-oracle entries are matched to eligible companies by name:
\* whatever the oracle returns, the Sequencer's input holds only companies
\* that are eligible and have an entry, so does its output, and entries
\* naming no eligible company add nothing to the input; the companies of
\* the tentative list are eligible ones.
C17_MatchedByName ==
    /\ pm_pc = "score" =>
          \A out \in LLMOutputs(NamesOf(available_companies)) :
              LET input == Merge(out, available_companies).list
                  known == SelectSeq(out,
                               LAMBDA e : e.name \in NamesOf(available_companies))
                  plan == plan_multi_company_visit(input, available_minutes)
              IN /\ NamesOf(input) \subseteq
                        NamesOf(available_companies) \cap EntryNames(out)
                 /\ input = Merge(known, available_companies).list
                 /\ Len(input) <= Len(known)
                 /\ \A i \in 1..Len(plan) :
                        plan[i] \in NamesOf(available_companies) \cap EntryNames(out)
    /\ \A i \in 1..Len(final_visit_plan_data) :
          final_visit_plan_data[i] \in NamesOf(available_companies)
    /\ tentative_len <= merged_len

\* two companies are eligible, each with legs short enough for both to be
\* planned, and one of them reached the Sequencer
C17_Witness ==
    /\ pm_pc = "while"
    /\ walks = 0
    /\ Len(available_companies) = 2
    /\ \A j \in 1..2 : available_companies[j].T_hub_to_i = 100
    /\ merged_len = 1
    /\ Len(final_visit_plan_data) = 1

\* C18 (as claimed): a matching entry that lacks a score, or has one that
\* is not a number, only costs that company its place: pre_meeting_plan does
\* not raise.
C18_BadEntryNeverRaises == pm_pc # "raised"

\* the priority order computed from a response
PriorityOrder(out) ==
    LET sorted == SortedCompanies(Merge(out, available_companies).list,
                                  available_minutes)
    IN [i \in 1..Len(sorted) |-> sorted[i].name]

\* C19 (as claimed): the priority order does not depend on the order of the
\* Sequencer's input: a response of two entries and the same response with
\* the entries exchanged give the same order.
C19_OrderIndependentOfInput ==
    pm_pc = "score" =>
        \A out \in LLMOutputs(NamesOf(available_companies)) :
            (/\ Len(out) = 2
             /\ ~Merge(out, available_companies).raised
             /\ ~Merge(<<out[2], out[1]>>, available_companies).raised)
                => PriorityOrder(out) = PriorityOrder(<<out[2], out[1]>>)

\* time the first k companies of a sorted list take: hub leg plus visit each
RECURSIVE Budget(_, _)
Budget(sorted, k) ==
    IF k = 0 THEN 0
    ELSE Budget(sorted, k - 1) + sorted[k].T_hub_to_i + 450

\* C20: the Sequencer returns a prefix of the score-sorted list: the first
\* k companies, whose hops and visits fit in the available minutes one
\* after the other, where k is the whole list or the company at k+1 does
\* not fit in what remains; nothing ranked after it is included.
C20_SequencerPrefix ==
    /\ pm_pc = "score" =>
          \A out \in LLMOutputs(NamesOf(available_companies)) :
              ~Merge(out, available_companies).raised =>
                  LET input == Merge(out, available_companies).list
                      sorted == SortedCompanies(input, available_minutes)
                      plan == plan_multi_company_visit(input, available_minutes)
                      k == Len(plan)
                  IN /\ k <= Len(sorted)
                     /\ \A i \in 1..k : plan[i] = sorted[i].name
                     /\ \A i \in 1..(Len(sorted) - 1) :
                            sorted[i].S_final >= sorted[i + 1].S_final
                     /\ Budget(sorted, k) <= available_minutes
                     /\ k < Len(sorted) => Budget(sorted, k + 1) > available_minutes
    /\ (pm_pc = "while" /\ walks = 0) =>
          /\ Len(final_visit_plan_data) = tentative_len
          /\ tentative_len <= merged_len

\* two companies reached the Sequencer and it stopped at the second
C20_Witness ==
    /\ pm_pc = "while"
    /\ walks = 0
    /\ merged_len = 2
    /\ Len(final_visit_plan_data) = 1

-----------------------------------------------------------------------------
(***************************************************************************)
(* Claims about the Sequencer's hops and the CandidateFilter               *)
(***************************************************************************)

\* C21 (as claimed): for the second and every later candidate the Sequencer
\* examines, the hop it charges is the road time from the previous waypoint
\* to the candidate, as the routing oracle reports it, not the candidate's
\* hub leg.
C21_LaterHopIsTrueRoadTime ==
    pm_pc = "score" =>
        \A out \in ScenarioOutputs(NamesOf(available_companies)) :
            LET sorted == SortedCompanies(Merge(out, available_companies).list,
                                          available_minutes)
                plan == plan_multi_company_visit(Merge(out, available_companies).list,
                                                 available_minutes)
            IN \A i \in 2..Len(sorted) :
                   i <= Len(plan) + 1 =>
                       T_prev_to_i(sorted[i], SubSeq(plan, 1, i - 1))
                           = ScenarioRoad(sorted[i - 1].name, sorted[i].name)

\* arrival_commute_min values for which int(arrival_commute_min * 2) is 20,
\* 45 (the default of max_driving_minutes) and 120 minutes
FilterCommutes == {100, 225, 600}

\* get_amap_driving_time(center_location, company_loc) for a directory entry
\* whose latitude is c: None without a key (api_tools.py lines 64-66), the
\* fallback when a latitude is missing, otherwise None or a duration
FilterAnswers(c) ==
    IF ~AMAP_API_KEY THEN {None}
    ELSE DrivingTimeResults(Truthy(center_location.lat), Truthy(c))

\* lines 199-202: `if not city: return []`
CF_NoCity ==
    /\ pm_pc = "filter"
    /\ idx = 1
    /\ center_location.city = ""
    /\ pm_pc' = "eligibility"
    /\ UNCHANGED <<meeting_resolved, arrival_at_hub_dt, meeting_start_dt,
                   arrival_commute_min, city_companies, first_filtered_companies,
                   idx, available_companies, final_visit_plan_data,
                   tentative_len, current_time, current_route_items,
                   pre_meeting_route_final, final_arrival_time,
                   pm_error_message, walks, walk_calls, llm_called, merged_len,
                   center_location, driving_time_oracle, rcVars, plVars, itVars>>

\* a call of filter_companies_by_area_by_time(center_location,
\* max_driving_minutes) on any center, directory and limit
FilterPM ==
    /\ pm_pc = "filter"
    /\ center_location \in [city : Cities, lat : Coord, lon : Coord]
    /\ arrival_commute_min \in FilterCommutes
    /\ city_companies \in {SubSeq(CompanyNames, 1, n) : n \in 0..MaxCompanies}
    /\ meeting_resolved = TRUE
    /\ arrival_at_hub_dt = 0
    /\ meeting_start_dt = 0
    /\ first_filtered_companies = <<>>
    /\ idx = 1
    /\ available_companies = <<>>
    /\ final_visit_plan_data = <<>>
    /\ tentative_len = 0
    /\ current_time = 0
    /\ current_route_items = <<>>
    /\ pre_meeting_route_final = <<>>
    /\ final_arrival_time = None
    /\ pm_error_message = None
    /\ walks = 0
    /\ walk_calls = 0
    /\ llm_called = FALSE
    /\ merged_len = 0
    /\ driving_time_oracle = Unconstrained

\* the filter alone, from its entry to its return (pm_pc = "eligibility")
NextFilter ==
    \/ CF_NoCity
    \/ /\ center_location.city # ""
       /\ \E c \in Coord : \E t \in FilterAnswers(c) : PM_Filter(t)
    \/ /\ center_location.city # ""
       /\ PM_FilterDone

InitFilter == InitRC /\ FilterPM /\ IdlePL

SpecFilter == InitFilter /\ [][NextFilter]_vars

\* C22 (as claimed): when the center location has neither latitude nor
\* longitude, the filter returns the empty list: nothing is ever retained,
\* whatever the directory and max_driving_minutes.
C22_UnresolvedCenterGivesEmpty ==
    (center_location.lat = "None" /\ center_location.lon = "None") =>
        first_filtered_companies = <<>>

\* position of a name in the directory
PositionOf(name) == CHOOSE i \in 1..Len(city_companies) : city_companies[i] = name

\* the entries retained so far are entries already visited, in directory
\* order, each with a drive time within the limit int(arrival_commute_min * 2)
FilterResultInOrder ==
    /\ \A i \in 1..Len(first_filtered_companies) :
           /\ \E j \in 1..Len(city_companies) :
                  /\ city_companies[j] = first_filtered_companies[i].name
                  /\ pm_pc = "filter" => j < idx
           /\ first_filtered_companies[i].driving_time_min
                  <= 10 * ((2 * arrival_commute_min) \div 10)
    /\ \A i, j \in 1..Len(first_filtered_companies) :
           i < j => PositionOf(first_filtered_companies[i].name)
                        < PositionOf(first_filtered_companies[j].name)

\* C23: the filter retains exactly the entries of the center's city whose
\* center -> entry query returned a drive time <= max_driving_minutes, in
\* directory order: one iteration appends the entry with that time when the
\* answer is a time within the limit and leaves the result alone otherwise;
\* after a failed query the loop goes on with the next entry, and it returns
\* only when every entry was visited.
C23_FilterKeepsAnsweredWithinLimit ==
    [][ /\ FilterResultInOrder'
        /\ \A c \in Coord : \A t \in FilterAnswers(c) :
               PM_Filter(t) =>
                   /\ idx' = idx + 1
                   /\ pm_pc' = "filter"
                   /\ first_filtered_companies' =
                        IF t # None /\ t[1] <= 10 * ((2 * arrival_commute_min) \div 10)
                        THEN Append(first_filtered_companies,
                                    [name |-> city_companies[idx],
                                     driving_time_min |-> t[1]])
                        ELSE first_filtered_companies
        /\ (pm_pc = "filter" /\ pm_pc' # "filter" /\ center_location.city # "") =>
               /\ idx = Len(city_companies) + 1
               /\ first_filtered_companies' = first_filtered_companies
      ]_vars

\* the filter returned: with a resolved center, a key and a limit of 120
\* minutes the first entry was skipped, which only a failed query does, and
\* the second entry was still visited and retained
C23_Witness ==
    /\ pm_pc = "eligibility"
    /\ AMAP_API_KEY
    /\ center_location = [city |-> "Shenzhen", lat |-> "set", lon |-> "set"]
    /\ arrival_commute_min = 600
    /\ Len(city_companies) = 2
    /\ Len(first_filtered_companies) = 1
    /\ first_filtered_companies[1].name = city_companies[2]

-----------------------------------------------------------------------------
(***************************************************************************)
(* Claims about the returned route, the mandatory legs and the frame of    *)
(* each stage                                                              *)
(***************************************************************************)

\* C24 (as claimed): in every outcome of pre_meeting_plan, the one without
\* any visit included, the returned route has a first segment that starts at
\* the hub-arrival instant and a last segment that is a transit hop to the
\* meeting venue.
C24_RouteFromHubToVenue ==
    pm_pc = "done" =>
        /\ pre_meeting_route_final # <<>>
        /\ pre_meeting_route_final[1].type = "transport"
        /\ pre_meeting_route_final[1].start_time = arrival_at_hub_dt
        /\ pre_meeting_route_final[Len(pre_meeting_route_final)].type = "transport"
        /\ pre_meeting_route_final[Len(pre_meeting_route_final)].location
               = "Meeting Venue"

\* C25 (as claimed): when get_amap_driving_time fails (returns None) for
\* the home -> departure hub leg or for the arrival hub -> venue leg of the
\* chosen offer, calculate_final_transport leaves an error message and the
\* run ends there: pre_meeting_plan is not the next node.
C25_FailedMandatoryLegAborts ==
    [][ \A th \in CommuteAnswers, ta \in CommuteAnswers :
            ((th = None \/ ta = None) /\ CFT_Commute(th, ta)) =>
                /\ error_message' # None
                /\ node' = "END"
      ]_vars

\* C26: when the deadline (meeting start minus 30 minutes) lies before the
\* hub arrival, no company is ever eligible, whatever times the routing
\* oracle returns: the value oracle is not called, no walk of the repair
\* loop starts, no routing query is made by the loop, and pre_meeting_plan
\* returns the empty route without an error.
C26_NegativeWindowPlansNothing ==
    (meeting_start_dt - 300) - arrival_at_hub_dt < 0 =>
        /\ pm_pc \in {"filter", "eligibility", "done"}
        /\ available_companies = <<>>
        /\ ~llm_called
        /\ walks = 0
        /\ walk_calls = 0
        /\ final_visit_plan_data = <<>>
        /\ pre_meeting_route_final = <<>>
        /\ pm_error_message = None

\* pre_meeting_plan returned with a negative window after the eligibility
\* step looked at two filtered companies
C26_Witness ==
    /\ (meeting_start_dt - 300) - arrival_at_hub_dt < 0
    /\ pm_pc = "done"
    /\ Len(first_filtered_companies) = 2
    /\ Executed("pre_meeting_plan")

\* C27 (as claimed): no stage changes in place what an earlier stage
\* produced: the filter leaves the directory as it is, the records the
\* Sequencer receives are the same after calculate_final_score ran on them,
\* and no step of the repair loop changes the list the Sequencer returned.
C27_NoStageMutatesEarlierOutput ==
    [][ /\ pm_pc = "filter" => city_companies' = city_companies
        /\ pm_pc = "score" =>
               \A out \in LLMOutputs(NamesOf(available_companies)) :
                   LET input == Merge(out, available_companies).list
                   IN \A i \in 1..Len(input) :
                          Scored(input[i], available_minutes) = input[i]
        /\ pm_pc \in {"while", "hop", "final"} =>
               final_visit_plan_data' = final_visit_plan_data
      ]_vars

-----------------------------------------------------------------------------
(***************************************************************************)
(* Claims about the work of the loop, the order of the stages and the      *)
(* scoring function                                                        *)
(***************************************************************************)

\* calls the first m walks can make at most when the loop is entered with n
\* candidates: walk j (counted from 0) runs over n - j candidates and makes
\* at most n - j + 1 calls
RECURSIVE CallsOfWalks(_, _)
CallsOfWalks(n, m) ==
    IF m = 0 THEN 0 ELSE CallsOfWalks(n, m - 1) + (n - (m - 1) + 1)

\* C28: the loop entered with n candidates makes at most n(n+3)/2 calls of
\* get_amap_driving_time: a walk over k candidates makes at most k + 1 calls
\* (k hops and the hop to the venue), walk number w runs over n - (w - 1)
\* candidates, and there are at most n walks that make a call.
C28_QuadraticCalls ==
    /\ 2 * walk_calls <= tentative_len * (tentative_len + 3)
    /\ walk_calls <= CallsOfWalks(tentative_len, walks)
    /\ pm_pc \in {"hop", "final"} =>
           /\ Len(final_visit_plan_data) = tentative_len - (walks - 1)
           /\ idx <= Len(final_visit_plan_data) + 1
           /\ walk_calls <= CallsOfWalks(tentative_len, walks - 1) + (idx - 1)
    /\ pm_pc = "while" => Len(final_visit_plan_data) = tentative_len - walks

\* the bound is met: two candidates entered the loop and it made 5 calls
C28_Witness ==
    /\ tentative_len = 2
    /\ walks = 2
    /\ walk_calls = 5

\* the stages in the order the claim gives
StageOrder ==
    <<"check_constraints", "geocode_locations", "traffic_query",
      "select_transport_by_llm", "calculate_final_transport",
      "pre_meeting_plan", "post_meeting_plan", "generate_final_itinerary">>

\* the stage after the k-th, or the end of the run
StageAfter(k) == IF k < Len(StageOrder) THEN StageOrder[k + 1] ELSE "END"

\* C29: every step of a run executes exactly one stage, the one that
\* follows the stages executed so far in the order check_constraints,
\* geocode_locations, traffic_query, select_transport_by_llm,
\* calculate_final_transport, pre_meeting_plan, post_meeting_plan,
\* generate_final_itinerary, so no stage runs twice or out of turn; after an
\* error message from check_constraints or traffic_query, after a selection
\* without a selected offer and after a calculation without a selected
\* transport the run is at its end, and nothing executes once it is.
C29_StagesInOrder ==
    [][ /\ node # "END"
        /\ node = StageAfter(Len(executed))
        /\ executed' = Append(executed, node)
        /\ node' \in {"END", StageAfter(Len(executed'))}
        /\ (node = "check_constraints" /\ error_message' # None) => node' = "END"
        /\ (node = "traffic_query" /\ error_message' # None) => node' = "END"
        /\ (node = "select_transport_by_llm" /\ selected_option_raw' = None)
               => node' = "END"
        /\ (node = "calculate_final_transport" /\ selected_transport' = None)
               => node' = "END"
      ]_vars

\* the run ended after calculate_final_transport, which built no
\* selected_transport: the three later stages did not execute
C29_Witness ==
    /\ node = "END"
    /\ executed = SubSeq(StageOrder, 1, 5)
    /\ selected_option_raw # None
    /\ selected_transport = None
    /\ error_message # None

\* the record pre_meeting_plan gives the Sequencer for the i-th eligible
\* company when the value oracle scores it (a, f)
ScoredInput(i, a, f) ==
    MergedItem(available_companies[i],
               [name |-> available_companies[i].name,
                S_attract |-> NumField(a), S_feas |-> NumField(f)])

\* C30: calculate_final_score depends on S_attract, S_feas, T_total_trip
\* and the available minutes alone: two records that agree on them get the
\* same S_final, whatever their names and their single legs; and scoring a
\* record that was scored already gives the same S_final and the same
\* record.
C30_ScoreDeterministic ==
    pm_pc = "score" =>
        \A i, j \in 1..Len(available_companies) : \A a \in {5, 9}, f \in {8} :
            LET c1 == ScoredInput(i, a, f)
                c2 == ScoredInput(j, a, f)
                once == Scored(c1, available_minutes)
            IN /\ c1.T_total_trip = c2.T_total_trip =>
                      calculate_final_score(c1, available_minutes)
                          = calculate_final_score(c2, available_minutes)
               /\ calculate_final_score(once, available_minutes) = once.S_final
               /\ Scored(once, available_minutes) = once
               /\ once.S_final = calculate_final_score(c1, available_minutes)

\* the Sequencer scored two companies whose legs differ and whose total
\* trip is the same
C30_Witness ==
    /\ pm_pc = "while"
    /\ walks = 0
    /\ merged_len = 2
    /\ Len(available_companies) = 2
    /\ available_companies[1].T_total_trip = available_companies[2].T_total_trip
    /\ available_companies[1].T_hub_to_i # available_companies[2].T_hub_to_i

-----------------------------------------------------------------------------
(***************************************************************************)
(* Claims about the selected offer and the offer set (Spec)                *)
(***************************************************************************)

\* the run went through all its stages
SuccessfulRun == node = "END" /\ Executed("generate_final_itinerary")

\* C31 (as claimed): the offer selected by a successful run is scheduled to
\* reach the hub no later than latest_hub_arrival = meeting start - (90
\* minutes + reference hub -> venue commute), whatever the transit-choice
\* oracle answered; stated for the most lenient deadline the reference
\* commute allows.
C31_SelectedArrivesByDeadline ==
    SuccessfulRun =>
        \E c \in ReferenceCommutes :
            ScheduledArrival(selected_option_raw[1]) <= latest_hub_arrival_dt(c)


-----------------------------------------------------------------------------
(***************************************************************************)
(* Claims about the truncation loop's result (SpecPlan, SpecScenario)      *)
(***************************************************************************)

\* C32 (as claimed): whenever pre_meeting_plan leaves the truncation loop
\* with an empty route (lines 514-531), the final arrival instant it reports
\* is the hub arrival plus the hub -> venue commute of the selected
\* transport, also when earlier walks computed and rejected an arrival.
C32_EmptyRouteReportsHubPlusCommute ==
    [][ (PM_LoopExit /\ pre_meeting_route_final = <<>>) =>
            final_arrival_time' = Some(arrival_at_hub_dt + arrival_commute_min)
      ]_vars


-----------------------------------------------------------------------------
(***************************************************************************)
(* The worked example with a routing service that answers each pair of     *)
(* places the same way on every query of a run (SpecOracle): for each pair *)
(* it either reports the road time or fails, every time it is asked.       *)
(***************************************************************************)

\* pairs pre_meeting_plan can ask about (lines 347, 358-359, 432, 479)
OraclePairs ==
    {<<"hub", c>> : c \in {"A", "B", "C"}}
        \cup {<<c, "meeting">> : c \in {"A", "B", "C"}}
        \cup {p \in {"A", "B", "C"} \X {"A", "B", "C"} : p[1] # p[2]}

\* the services considered: for each pair, TRUE iff its queries are answered
Oracles == [OraclePairs -> BOOLEAN]

\* get_amap_driving_time(from, to) under the service of this run
OracleAnswer(from, to) ==
    IF driving_time_oracle[<<from, to>>] THEN Some(ScenarioRoad(from, to))
    ELSE None

\* The loop never runs out of companies here (C33_LongestFeasiblePrefix
\* checks it): the walk over one eligible company repeats the two queries of
\* its eligibility test, so `while final_visit_plan_data:` always holds.
NextOracle ==
    \/ /\ pm_pc = "filter" /\ idx <= Len(city_companies)
       /\ PM_Filter(OracleAnswer("hub", city_companies[idx]))
    \/ PM_FilterDone
    \/ /\ pm_pc = "eligibility" /\ idx <= Len(first_filtered_companies)
       /\ PM_Eligibility(OracleAnswer("hub", first_filtered_companies[idx].name),
                         OracleAnswer(first_filtered_companies[idx].name, "meeting"))
    \/ PM_EligibilityDone
    \/ /\ pm_pc = "score"
       /\ \E out \in ScenarioOutputs(NamesOf(available_companies)) : PM_Score(out)
    \/ PM_WalkBegin
    \/ /\ pm_pc = "hop" /\ idx <= Len(final_visit_plan_data)
       /\ PM_Hop(OracleAnswer(current_loc, final_visit_plan_data[idx]))
    \/ /\ pm_pc = "final"
       /\ PM_Final(OracleAnswer(current_loc, "meeting"))
    \/ PM_Return
    \/ Run_post_meeting_plan
    \/ Run_generate_final_itinerary

InitOracle ==
    IdleRC /\ ScenarioPM /\ AtPreMeetingPL /\ driving_time_oracle \in Oracles

SpecOracle == InitOracle /\ [][NextOracle]_vars


\* the arrival at the venue of a walk over `list` from position i, standing at
\* `loc` at instant `time`, as the service of this run answers; None when a
\* hop is not answered
RECURSIVE WalkArrival(_, _, _, _)
WalkArrival(list, i, loc, time) ==
    IF i > Len(list)
    THEN IF driving_time_oracle[<<loc, "meeting">>]
         THEN Some(time + ScenarioRoad(loc, "meeting")) ELSE None
    ELSE IF driving_time_oracle[<<loc, list[i]>>]
         THEN WalkArrival(list, i + 1, list[i],
                          time + ScenarioRoad(loc, list[i]) + VISIT)
         ELSE None

\* the walk over `list` has all its hops resolved and arrives by the deadline
FeasiblePrefix(list) ==
    /\ WalkArrival(list, 1, "hub", arrival_at_hub_dt) # None
    /\ WalkArrival(list, 1, "hub", arrival_at_hub_dt)[1] <= latest_arrival_needed

\* the companies a route visits, in order
RECURSIVE VisitsOf(_)
VisitsOf(route) ==
    IF route = <<>> THEN <<>>
    ELSE IF Head(route).type = "company_visit"
         THEN <<Head(route).location>> \o VisitsOf(Tail(route))
         ELSE VisitsOf(Tail(route))

\* C33: with a routing service that answers each pair the same way on every
\* query, the accepted route visits the longest prefix of the tentative list
\* whose walk has all hops resolved and arrives by the deadline: prefixes are
\* tried from the whole list downwards one company at a time, a prefix is
\* given up only if its walk is infeasible, and the prefix accepted is
\* feasible and is the one the route visits.
C33_LongestFeasiblePrefix ==
    [][ /\ (pm_pc \in {"hop", "final"}
              /\ final_visit_plan_data' # final_visit_plan_data) =>
                /\ ~FeasiblePrefix(final_visit_plan_data)
                /\ final_visit_plan_data' =
                       SubSeq(final_visit_plan_data, 1, Len(final_visit_plan_data) - 1)
                /\ Len(final_visit_plan_data) = tentative_len - (walks - 1)
        /\ (pm_pc = "final" /\ pm_pc' = "done") =>
                /\ FeasiblePrefix(final_visit_plan_data)
                /\ VisitsOf(pre_meeting_route_final') = final_visit_plan_data
                /\ Len(final_visit_plan_data) = tentative_len - (walks - 1)
        /\ (pm_pc' = "while") => final_visit_plan_data' # <<>>
      ]_vars

\* C33 witness: every hop between companies is answered, the tentative list
\* had two companies, the walk over both arrived late and the route over the
\* first was accepted
C33_Witness ==
    /\ pm_pc = "done"
    /\ \A p \in OraclePairs : (p[1] # "hub" /\ p[2] # "meeting") => driving_time_oracle[p]
    /\ tentative_len = 2
    /\ walks = 2
    /\ Len(VisitsOf(pre_meeting_route_final)) = 1


\* C34: an accepted route with k >= 1 visits has exactly 2k+1 segments: for
\* each company of the accepted walk, in order, a hop to it and a visit of
\* the fixed duration there, then the hop to the venue; the first segment
\* starts at the hub arrival and each segment starts when the previous one
\* ends, so no segment of an earlier, rejected walk is in the route.
C34_RouteShape ==
    (pm_pc = "done" /\ pre_meeting_route_final # <<>>) =>
        LET r == pre_meeting_route_final
            k == Len(final_visit_plan_data)
        IN  /\ k >= 1
            /\ Len(r) = 2 * k + 1
            /\ \A j \in 1..k :
                  /\ r[2 * j - 1].type = "transport"
                  /\ r[2 * j - 1].location = final_visit_plan_data[j]
                  /\ r[2 * j].type = "company_visit"
                  /\ r[2 * j].location = final_visit_plan_data[j]
                  /\ r[2 * j].end_time - r[2 * j].start_time
                        = 10 * COMPANY_VISIT_DURATION_MINUTES
            /\ r[2 * k + 1].type = "transport"
            /\ r[2 * k + 1].location = "Meeting Venue"
            /\ r[1].start_time = arrival_at_hub_dt
            /\ \A i \in 1..Len(r) : r[i].start_time <= r[i].end_time
            /\ \A i \in 2..Len(r) : r[i].start_time = r[i - 1].end_time

\* C34 witness: a route of three segments over one company, accepted on the
\* second walk after a walk over two companies reached the venue late
C34_Witness ==
    /\ pm_pc = "done"
    /\ Len(pre_meeting_route_final) = 3
    /\ tentative_len = 2
    /\ walks = 2
    /\ current_time > arrival_at_hub_dt


\* C35 (as claimed): no candidate is visited more than once in the returned
\* route, for every response of the value oracle, including responses that
\* list the same company name more than once.
C35_NoCompanyVisitedTwice ==
    pm_pc = "done" =>
        \A i, j \in 1..Len(VisitsOf(pre_meeting_route_final)) :
            VisitsOf(pre_meeting_route_final)[i] = VisitsOf(pre_meeting_route_final)[j]
                => i = j


\* C36 (as claimed): in the offer set traffic_query builds, (type, id)
\* identifies at most one offer, so the offer re-resolved from the oracle's
\* answer is the only one with that identifier.
C36_TypeAndIdIdentifyOffer ==
    \A i, j \in 1..Len(transport_options) :
        (/\ transport_options[i].type = transport_options[j].type
         /\ transport_options[i].id = transport_options[j].id) => i = j


-----------------------------------------------------------------------------
(***************************************************************************)
(* Claims about the retry schedule of one call (SpecRouting)               *)
(***************************************************************************)

\* C37: within one call of get_amap_driving_time, for every interleaving of
\* rate-limited responses and network failures, at most 3 requests are
\* sent and the sleeps are a prefix of (1 s, 2 s): one sleep after each
\* failed attempt but the last, none after the last attempt; a success on
\* any attempt returns at once with the duration; and the wait of a call
\* starts at 1 s whatever the calls before it slept.
C37_RetrySchedule ==
    rc_pc # "idle" =>
        /\ requests <= 3
        /\ requests = Len(responses)
        /\ sleeps \in {<<>>, <<1>>, <<1, 2>>}
        /\ rc_pc = "loop" => (Len(sleeps) = requests /\ requests < 3)
        /\ (rc_pc = "returned" /\ requests > 0) => Len(sleeps) = requests - 1
        /\ \A i \in 1..Len(responses) :
              /\ i < Len(responses) => responses[i] \in {"limit", "RequestException"}
              /\ responses[i] = "success" =>
                    /\ i = Len(responses)
                    /\ rc_pc = "returned"
                    /\ result \in SuccessResults
        /\ (rc_pc = "loop" /\ requests = 0) => wait_time = 1
        /\ (rc_pc = "loop" /\ requests = 1) => wait_time = 2

\* C37 witness: the second call of a run met a network failure, then a
\* rate-limited response, and succeeded on the third attempt
C37_Witness ==
    /\ calls = 2
    /\ rc_pc = "returned"
    /\ responses = <<"RequestException", "limit", "success">>
    /\ sleeps = <<1, 2>>


-----------------------------------------------------------------------------
(***************************************************************************)
(* Claims about the final itinerary (SpecPlan)                             *)
(***************************************************************************)

\* the run went through generate_final_itinerary
ItineraryBuilt == node = "END" /\ Executed("generate_final_itinerary")

\* the items of the itinerary are in non-decreasing start-time order
OrderedByStart ==
    \A i, j \in 1..Len(itinerary_items) :
        i < j => itinerary_items[i].start_time <= itinerary_items[j].start_time

\* every pre-meeting segment ends at or before meeting start minus the
\* post-arrival buffer
PreMeetingEndsByDeadline ==
    \A i \in 1..Len(pre_meeting_route_final) :
        pre_meeting_route_final[i].end_time
            <= meeting_start_dt - 10 * POST_ARRIVAL_BUFFER_MINUTES

\* the itinerary is the pre-meeting segments, then the meeting item, then the
\* transit to the hotel, then the hotel check-in
MeetingThenHotel ==
    LET n == Len(pre_meeting_route_final)
    IN  /\ Len(itinerary_items) = n + 3
        /\ SubSeq(itinerary_items, 1, n) = pre_meeting_route_final
        /\ itinerary_items[n + 1].type = "meeting"
        /\ itinerary_items[n + 1].start_time = meeting_start_dt
        /\ itinerary_items[n + 2].type = "transport"
        /\ itinerary_items[n + 2].location = "Hotel"
        /\ itinerary_items[n + 3].type = "hotel"

\* C38 (as claimed): in the final itinerary of a successful run the items are
\* in non-decreasing start-time order, every pre-meeting segment ends at or
\* before meeting start minus the post-arrival buffer, and the meeting item
\* comes after the pre-meeting segments and is followed by the transit to the
\* hotel and the hotel check-in.
C38_ItineraryInOrder ==
    ItineraryBuilt =>
        /\ OrderedByStart
        /\ PreMeetingEndsByDeadline
        /\ MeetingThenHotel

\* the same for meetings of positive duration
ItineraryInOrderForPositiveDuration ==
    (ItineraryBuilt /\ post_meeting_route[1].end_time > post_meeting_route[1].start_time) =>
        /\ OrderedByStart
        /\ PreMeetingEndsByDeadline
        /\ MeetingThenHotel

=============================================================================
